---- MODULE Spec2Model ----
(***************************************************************************)
(* A model of go-regtest: Regtest instances (regtest.go) driving a         *)
(* bitcoind node through scripts/bitcoind_manager.sh, together with the    *)
(* operating-system state the script reads and writes (the processes bound *)
(* to RPC ports and the data directories).                                 *)
(*                                                                         *)
(* Every lifecycle call of an instance is a sequence of steps taken by a   *)
(* caller thread: the call acquires r.mu, the script runs (one step per    *)
(* is_running check of the script, because the script sleeps between them  *)
(* and the environment moves meanwhile), and the call reaches "ret", the   *)
(* state in which its result is decided and only the deferred r.mu.Unlock  *)
(* is left; Return releases the lock.                                      *)
(***************************************************************************)
EXTENDS Integers, Sequences, FiniteSets, TLC

VARIABLES
    config,        \* the value of *r.config as New stored it (NoConfig: no instance)
    scriptPath,    \* r.scriptPath: "staged" (the temp script file) or ""
    scriptTmpDir,  \* r.scriptTmpDir: "tmp" (the temp directory) or ""
    mu,            \* r.mu: 0 when free, otherwise the thread holding it
    client,        \* r.client: 0 for nil, otherwise a session handle
    handles,       \* every rpcclient.Client: "free" (no such object), "live", "shut"
    handleCfg,     \* the ConnConfig a handle was created with (0 when free)
    proc,          \* per RPC port: the process bound to it
    dirs,          \* the data directories that exist on disk
    pc,            \* per caller thread: where it is in its call
    op,            \* per caller thread: the method it is calling ("-" when idle)
    inst,          \* per caller thread: the instance it is calling (0 when idle)
    res,           \* per caller thread: the result of the call, decided at "ret"
    out,           \* per caller thread: the script's combined output
    pid,           \* per caller thread: does $PID of its stop action still name the process
    ext,           \* per caller thread: did the node die on its own after the readiness probe
    was,           \* per caller thread: was the instance's node alive when Start or Stop was called
    snap,          \* per caller thread: the local `client` an RPC helper copied from r.client
    arg,           \* per caller thread: the arguments of the RPC helper it is calling
    heap,          \* the Config structs and the backing arrays of their ExtraArgs slices
    held,          \* the caller's *Config variables: the pointer each holds (0: nil)
    rcfg,          \* the pointer r.config of each instance (0: New returned no instance)
    ctor,          \* per instance: how far New has come, and the argument it was called with
    tmpfs,         \* per instance: the temp directory os.MkdirTemp made for it, on disk
    probes,        \* per caller thread: the turns of the readiness loop its start action has made
    clientMu,      \* per instance: r.clientMu, its writer (0: none) and its readers
    wallets,       \* per wallet name: the wallet in the node ("absent", "unloaded", "loaded")
    walletName     \* per caller thread: the walletName argument of its call

vars == <<config, scriptPath, scriptTmpDir, mu, client, handles, handleCfg,
          proc, dirs, pc, op, inst, res, out, pid, ext, was, snap, arg, heap, held,
          rcfg, ctor, tmpfs, probes, clientMu, wallets, walletName>>

-----------------------------------------------------------------------------
(* Bounds of the model *)

\* The instances constructed and the caller threads (goroutines) using them
Instances == {1, 2}
Threads == {1, 2}

\* The rpcclient.Client objects that can exist at one time
MaxHandles == 2
Handles == 1..MaxHandles

\* The turns of the readiness loop of start_bitcoind: for i in {1..20}
MaxProbes == 20

\* The Config structs and backing arrays that can exist at one time
MaxRefs == 6

\* The wallet names callers pass: a plain one, and one that reads like a
\* phrase of the node's error texts
WalletNames == {<<"miner">>, <<"already", " ", "exists">>}
Refs == 1..MaxRefs

-----------------------------------------------------------------------------
(* Strings.  A string is a sequence of tokens; ":" and " " are tokens of    *)
(* their own, so that splitting and substring search are computed.          *)

\* strings.Split(s, sep): the segments of s between the occurrences of sep
RECURSIVE Split(_, _)
Split(s, sep) ==
    IF \E k \in 1..Len(s) : s[k] = sep
    THEN LET k == CHOOSE j \in 1..Len(s) : s[j] = sep /\ \A m \in 1..(j-1) : s[m] # sep
         IN  <<SubSeq(s, 1, k-1)>> \o Split(SubSeq(s, k+1, Len(s)), sep)
    ELSE <<s>>

\* strings.Contains(s, sub)
Contains(s, sub) ==
    \E k \in 0..(Len(s) - Len(sub)) : SubSeq(s, k+1, k+Len(sub)) = sub

-----------------------------------------------------------------------------
(* Configuration *)

\* DefaultConfig().  Its DataDir "./bitcoind_regtest" and the script's
\* "$(pwd)/bitcoind_regtest" name one directory, written "bitcoind_regtest" here.
DefaultConfig ==
    [Host |-> <<"127.0.0.1", ":", "18443">>, User |-> "user", Pass |-> "pass",
     DataDir |-> "bitcoind_regtest", ExtraArgs |-> <<>>]

\* The second configuration of Test_MultipleInstances
ConfigB ==
    [Host |-> <<"127.0.0.1", ":", "19100">>, User |-> "user2", Pass |-> "pass2",
     DataDir |-> "bitcoind_regtest_2", ExtraArgs |-> <<>>]

\* The configurations callers construct instances with
Configs == {DefaultConfig, ConfigB}

\* r.extractPort()
extractPort(i) ==
    LET hostParts == Split(config[i].Host, ":")
    IN  IF Len(hostParts) = 2 THEN hostParts[2] ELSE <<"18443">>

\* r.RPCConfig()
RPCConfig(i) ==
    [Host |-> config[i].Host, User |-> config[i].User, Pass |-> config[i].Pass,
     HTTPPostMode |-> TRUE, DisableTLS |-> TRUE]

\* The ports a process can be bound to: the configured ones and the script's
Ports == {<<"18443">>, <<"19100">>}

DataDirs == {"bitcoind_regtest", "bitcoind_regtest_2"}

NoProc == [kind |-> "none", phase |-> "-", owner |-> 0, user |-> "-", pass |-> "-",
           datadir |-> "-", killable |-> TRUE]

-----------------------------------------------------------------------------
(* scripts/bitcoind_manager.sh *)

\* The arguments Start, Stop and IsRunning pass: action datadir port user pass
ScriptArgs(i, action) ==
    [action |-> action, datadir |-> config[i].DataDir, port |-> extractPort(i),
     user |-> config[i].User, pass |-> config[i].Pass]

\* The script's settings (lines 6-9); a is the argument record it was run with
DATADIR(a) == "bitcoind_regtest"
RPC_PORT(a) == <<"18443">>
RPC_USER(a) == "user"
RPC_PASS(a) == "pass"

\* is_running: lsof finds a process on the port
is_running(a) == proc[RPC_PORT(a)].kind # "none"

\* bitcoin-cli <command> against the port with the script's credentials
CliAnswers(a) ==
    LET n == proc[RPC_PORT(a)]
    IN  /\ n.kind = "bitcoind"
        /\ n.phase = "up"
        /\ n.user = RPC_USER(a)
        /\ n.pass = RPC_PASS(a)

\* What the script prints
OutAlreadyRunning == <<"ERROR:", " ", "bitcoind", " ", "is", " ", "already", " ", "running", " ", "on", " ", "port">>
OutReady == <<"Starting", " ", "bitcoind", "\n", "bitcoind", " ", "is", " ", "ready!">>
OutStartFailed == <<"Starting", " ", "bitcoind", "\n", "ERROR:", " ", "bitcoind", " ", "failed", " ", "to", " ", "start", " ", "properly">>
OutNotRunning == <<"bitcoind", " ", "is", " ", "not", " ", "running">>
OutStopping == <<"Stopping", " ", "bitcoind...", "\n">>
OutSentStop == <<"Sent", " ", "stop", " ", "command", " ", "via", " ", "RPC", "\n">>
OutForceKill == <<"Force", " ", "killing", " ", "bitcoind...", "\n">>
OutCleaning == <<"Cleaning", " ", "up", " ", "datadir...", "\n">>
OutStopped == <<"bitcoind", " ", "stopped">>
OutRunning == <<"bitcoind", " ", "is", " ", "running", " ", "on", " ", "port">>
\* bash run with an empty script path
OutNoScript == <<"bash:", " ", ":", " ", "No", " ", "such", " ", "file", " ", "or", " ", "directory">>

\* status_bitcoind
status_bitcoind(a) == IF is_running(a) THEN OutRunning ELSE OutNotRunning

\* The marker IsRunning searches the output for
Marker == <<"is", " ", "running">>

-----------------------------------------------------------------------------
(* Config values behind pointers.  A *Config points to a struct in the heap *)
(* and the ExtraArgs slice of a struct points to a backing array (0 for a   *)
(* nil slice), so that two structs can share one array.                     *)

\* customCfg of Test_Config
CustomConfig ==
    [Host |-> <<"127.0.0.1", ":", "18444">>, User |-> "testuser", Pass |-> "testpass",
     DataDir |-> "/tmp/test_regtest", ExtraArgs |-> <<"-txindex=1">>]

\* Config{}: the zero value, standing in `config` and `ctor` where there is
\* no Config
NoConfig == [Host |-> <<>>, User |-> "", Pass |-> "", DataDir |-> "", ExtraArgs |-> <<>>]

\* The caller's variables, as in Test_Config: the Config it makes and passes
\* to New, and the one it gets from Config()
CallerVars == {"cfg", "got"}

\* The Config literals callers write
CallerConfigs == {DefaultConfig, CustomConfig}

\* A heap cell that holds no object
NoObject == [kind |-> "free"]

FreeRefs(h) == {r \in Refs : h[r].kind = "free"}

\* The address of a new object
FirstFree(h) == CHOOSE r \in FreeRefs(h) : \A k \in FreeRefs(h) : r <= k

\* The strings of the slice a Config struct holds
Elems(h, r) == IF h[r].ExtraArgs = 0 THEN <<>> ELSE h[h[r].ExtraArgs].elems

\* The value a *Config points to, slice contents included
Deep(h, r) ==
    [Host |-> h[r].Host, User |-> h[r].User, Pass |-> h[r].Pass,
     DataDir |-> h[r].DataDir, ExtraArgs |-> Elems(h, r)]

\* A slice literal or append([]string(nil), elems...): a new backing array,
\* nil when there is nothing to hold
MakeSlice(h, elems) ==
    IF elems = <<>>
    THEN [heap |-> h, ref |-> 0]
    ELSE [heap |-> [h EXCEPT ![FirstFree(h)] = [kind |-> "array", elems |-> elems]],
          ref |-> FirstFree(h)]

\* &Config{...} with the fields of value v
Store(h, v) ==
    LET sl == MakeSlice(h, v.ExtraArgs)
        c == FirstFree(sl.heap)
    IN  [heap |-> [sl.heap EXCEPT ![c] =
                      [kind |-> "Config", Host |-> v.Host, User |-> v.User,
                       Pass |-> v.Pass, DataDir |-> v.DataDir, ExtraArgs |-> sl.ref]],
         ref |-> c]

\* A copy that takes the slice of the source as it is
CopyConfig_Shallow(h, src) ==
    [heap |-> [h EXCEPT ![FirstFree(h)] = h[src]], ref |-> FirstFree(h)]

\* &Config{Host: c.Host, User: c.User, Pass: c.Pass, DataDir: c.DataDir,
\*         ExtraArgs: append([]string(nil), c.ExtraArgs...)}
CopyConfig(h, src) ==
    LET sl == MakeSlice(h, Elems(h, src))
        c == FirstFree(sl.heap)
    IN  [heap |-> [sl.heap EXCEPT ![c] =
                      [kind |-> "Config", Host |-> h[src].Host, User |-> h[src].User,
                       Pass |-> h[src].Pass, DataDir |-> h[src].DataDir,
                       ExtraArgs |-> sl.ref]],
         ref |-> c]

\* There is room for a struct and an array
Room(h) == Cardinality(FreeRefs(h)) >= 2

\* The garbage collector: what no root reaches is no object any more
Collect(h, roots) ==
    LET live == roots \cup {h[r].ExtraArgs : r \in roots}
    IN  [r \in Refs |-> IF r \in live THEN h[r] ELSE NoObject]

\* The heap after New has constructed the instances of the given values and
\* the callers have dropped what they passed
HeapOf(cfgs) ==
    LET h1 == Store([r \in Refs |-> NoObject], cfgs[1])
        h2 == Store(h1.heap, cfgs[2])
    IN  [heap |-> h2.heap, refs |-> <<h1.ref, h2.ref>>]

-----------------------------------------------------------------------------
(* The state after New has constructed the instances *)

\* Hosts a caller can configure: an IPv4 address with a port, a name
\* without a port, and an IPv6 address with a port
Hosts ==
    {<<"127.0.0.1", ":", "18444">>,
     <<"localhost">>,
     <<"[", ":", ":", "1]", ":", "19100">>}

\* The strings a field of a Config can hold: those of the literals, the
\* zero value, and "modified" as Test_Config assigns it
ConfigValues ==
    LET lit == Configs \cup CallerConfigs \cup {NoConfig}
    IN  [Host : {c.Host : c \in lit} \cup {<<"modified">>} \cup Hosts,
         User : {c.User : c \in lit} \cup {"modified"},
         Pass : {c.Pass : c \in lit} \cup {"modified"},
         DataDir : {c.DataDir : c \in lit} \cup {"modified"},
         ExtraArgs : {<<>>, <<"-txindex=1">>, <<"modified">>}]

\* The arguments callers pass to the RPC helpers: an address (empty, not an
\* address, a regtest address) and an amount or a number of blocks
Addresses == {"", "not-an-address", "bcrt1q"}
Numbers == {-1, 0, 1}
NoArg == [address |-> "", n |-> 0]

TypeOK ==
    /\ config \in [Instances -> ConfigValues]
    /\ scriptPath \in [Instances -> {"staged", ""}]
    /\ scriptTmpDir \in [Instances -> {"tmp", ""}]
    /\ mu \in [Instances -> {0} \cup Threads]
    /\ client \in [Instances -> {0} \cup Handles]
    /\ handles \in [Handles -> {"free", "live", "shut"}]
    /\ DOMAIN proc = Ports
    /\ dirs \subseteq DataDirs
    /\ op \in [Threads -> {"-", "Start", "Stop", "IsRunning", "Cleanup", "GetBlockCount",
                           "Warp", "SendToAddress", "ScanTxOutSetForAddress",
                           "EnsureWallet", "UnloadWallet"}]
    /\ was \in [Threads -> BOOLEAN]
    /\ pc \in [Threads -> {"idle", "start_run", "start_probe", "start_connect",
                           "stop_run", "stop_term", "stop_kill", "status_run",
                           "cleanup_run", "ret", "rpc_req", "rpc_ret",
                           "helper_run", "helper_ret", "mu_wait", "mu_held",
                           "clientMu_wait", "clientMu_held", "rlock_wait",
                           "rlock_held", "ensure_load", "ensure_create",
                           "ensure_reload"}]
    /\ inst \in [Threads -> {0} \cup Instances]
    /\ pid \in [Threads -> BOOLEAN]
    /\ ext \in [Threads -> BOOLEAN]
    /\ snap \in [Threads -> {0} \cup Handles]
    /\ arg \in [Threads -> {NoArg} \cup [address : Addresses, n : Numbers]]
    /\ \A r \in Refs : heap[r].kind \in {"free", "Config", "array"}
    /\ \A x \in CallerVars : held[x] = 0 \/ heap[held[x]].kind = "Config"
    /\ \A i \in Instances : rcfg[i] = 0 \/ heap[rcfg[i]].kind = "Config"
    /\ \A i \in Instances :
          /\ ctor[i].state \in {"none", "initialize", "mkdir", "write", "ready",
                                "no_bitcoind", "mkdir_failed", "write_failed"}
          /\ ctor[i].how \in {"-", "nil", "given"}
          /\ ctor[i].arg \in ConfigValues
    /\ tmpfs \in [Instances -> {"-", "empty", "script"}]
    /\ probes \in [Threads -> 0..MaxProbes]
    /\ clientMu \in [Instances -> [w : {0} \cup Threads, r : SUBSET Threads]]
    /\ wallets \in [WalletNames -> {"absent", "unloaded", "loaded"}]
    /\ walletName \in [Threads -> WalletNames \cup {<<>>}]

\* The configurations the instances are constructed with, on distinct ports
\* and data directories as the callers are told to choose them: New(nil) and
\* the second instance of Test_MultipleInstances
ConfigChoices == {<<DefaultConfig, ConfigB>>}

Init ==
    /\ config \in ConfigChoices
    /\ scriptPath = [i \in Instances |-> "staged"]
    /\ scriptTmpDir = [i \in Instances |-> "tmp"]
    /\ mu = [i \in Instances |-> 0]
    /\ client = [i \in Instances |-> 0]
    /\ handles = [h \in Handles |-> "free"]
    /\ handleCfg = [h \in Handles |-> 0]
    /\ proc = [p \in Ports |-> NoProc]
    /\ dirs = {}
    /\ pc = [t \in Threads |-> "idle"]
    /\ op = [t \in Threads |-> "-"]
    /\ inst = [t \in Threads |-> 0]
    /\ was = [t \in Threads |-> FALSE]
    /\ res = [t \in Threads |-> "none"]
    /\ out = [t \in Threads |-> <<>>]
    /\ pid = [t \in Threads |-> FALSE]
    /\ ext = [t \in Threads |-> FALSE]
    /\ snap = [t \in Threads |-> 0]
    /\ arg = [t \in Threads |-> NoArg]
    /\ heap = HeapOf(config).heap
    /\ held = [x \in CallerVars |-> 0]
    /\ rcfg = HeapOf(config).refs
    /\ ctor = [i \in Instances |->
                 [state |-> "ready", how |-> IF i = 1 THEN "nil" ELSE "given",
                  arg |-> IF i = 1 THEN NoConfig ELSE config[i]]]
    /\ tmpfs = [i \in Instances |-> "script"]
    /\ probes = [t \in Threads |-> 0]
    /\ clientMu = [i \in Instances |-> [w |-> 0, r |-> {}]]
    /\ wallets = [w \in WalletNames |-> "absent"]
    /\ walletName = [t \in Threads |-> <<>>]

-----------------------------------------------------------------------------
(* Helpers of the steps *)

\* A Lock that never waits
CanLock_NoMutex(i) == TRUE

\* A Lock of one mutex shared by all the instances
CanLock_Global(i) == \A k \in Instances : mu[k] = 0

\* r.mu.Lock() on instance i can proceed
CanLock(i) == mu[i] = 0

\* The arguments the script of thread t's call runs with
Args(t) ==
    ScriptArgs(inst[t],
               CASE op[t] = "Start" -> "start"
                 [] op[t] = "Stop" -> "stop"
                 [] OTHER -> "status")

\* The node instance i launched is alive
NodeAlive(i) == \E p \in Ports : proc[p].kind = "bitcoind" /\ proc[p].owner = i

\* A goroutine calls method o of instance i, and r.mu.Lock() returns
Lock(t, i, o) ==
    /\ pc[t] = "idle"
    /\ CanLock(i)
    /\ mu' = [mu EXCEPT ![i] = t]
    /\ op' = [op EXCEPT ![t] = o]
    /\ inst' = [inst EXCEPT ![t] = i]

\* exec of bash with r.scriptPath finds a script to run
ScriptRuns(i) == scriptPath[i] # ""

\* Handle h names no object any more: it is not live and no one holds it
Unused(h) == handles[h] # "live" /\ \A t \in Threads : snap[t] # h

\* The handle rpcclient.New returns: an object no one holds
NewHandle == CHOOSE h \in Handles : Unused(h) /\ \A k \in Handles : (Unused(k) => h <= k)

\* A call reaches the state in which its result is decided
Finish(t, r, o) ==
    /\ pc' = [pc EXCEPT ![t] = "ret"]
    /\ res' = [res EXCEPT ![t] = r]
    /\ out' = [out EXCEPT ![t] = o]

\* rm -rf "$DATADIR"
RemoveDir(d) == dirs' = dirs \ {d}

\* if [ -d "$DATADIR" ]: echo "Cleaning up datadir..."
CleaningLine(a) == IF DATADIR(a) \in dirs THEN OutCleaning ELSE <<>>

-----------------------------------------------------------------------------
(* Start / StartContext *)

\* A Start that stages the script again when Cleanup has removed it
StartCall_Restages(t, i) ==
    /\ Lock(t, i, "Start")
    /\ was' = [was EXCEPT ![t] = NodeAlive(i)]
    /\ scriptPath' = [scriptPath EXCEPT ![i] = "staged"]
    /\ scriptTmpDir' = [scriptTmpDir EXCEPT ![i] = "tmp"]
    /\ tmpfs' = [tmpfs EXCEPT ![i] = "script"]
    /\ pc' = [pc EXCEPT ![t] = "start_run"]
    /\ UNCHANGED <<res, out>>
    /\ UNCHANGED <<config, client, handles, handleCfg, proc, dirs, pid, ext, snap, arg,
                   heap, held, rcfg, ctor, probes, clientMu, wallets, walletName>>

\* r.mu.Lock(); extractPort; exec.CommandContext(ctx, "bash", r.scriptPath, "start", ...)
StartCall(t, i) ==
    /\ Lock(t, i, "Start")
    /\ was' = [was EXCEPT ![t] = NodeAlive(i)]
    /\ IF ScriptRuns(i)
       THEN /\ pc' = [pc EXCEPT ![t] = "start_run"]
            /\ UNCHANGED <<res, out>>
       ELSE Finish(t, "start_failed", OutNoScript)
    /\ UNCHANGED <<config, scriptPath, scriptTmpDir, client, handles, handleCfg, proc,
                   dirs, pid, ext, snap, arg, heap, held, rcfg, ctor, tmpfs, probes,
                   clientMu, wallets, walletName>>

\* A start action that removes the data directory before it looks at the port
StartLaunch_WipeFirst(t) ==
    /\ pc[t] = "start_run"
    /\ LET a == Args(t)
           p == RPC_PORT(a)
           d == DATADIR(a)
       IN  IF is_running(a)
           THEN /\ Finish(t, "start_failed", OutAlreadyRunning)
                /\ dirs' = dirs \ {d}
                /\ UNCHANGED proc
           ELSE /\ \E mk \in BOOLEAN, launched \in BOOLEAN :
                     /\ launched => mk
                     /\ dirs' = IF mk THEN dirs \cup {d} ELSE dirs \ {d}
                     /\ proc' = IF launched
                                THEN [proc EXCEPT ![p] =
                                        [kind |-> "bitcoind", phase |-> "booting",
                                         owner |-> inst[t], user |-> RPC_USER(a),
                                         pass |-> RPC_PASS(a), datadir |-> d,
                                         killable |-> TRUE]]
                                ELSE proc
                /\ pc' = [pc EXCEPT ![t] = "start_probe"]
                /\ UNCHANGED <<res, out>>
    /\ probes' = [probes EXCEPT ![t] = 0]
    /\ UNCHANGED <<config, scriptPath, scriptTmpDir, mu, client, handles, handleCfg,
                   op, inst, pid, ext, was, snap, arg, heap, held, rcfg, ctor, tmpfs,
                   clientMu, wallets, walletName>>

\* start_bitcoind up to the launch: the is_running check, the wipe and
\* creation of the data directory, bitcoind -daemon
StartLaunch(t) ==
    /\ pc[t] = "start_run"
    /\ LET a == Args(t)
           p == RPC_PORT(a)
           d == DATADIR(a)
       IN  IF is_running(a)
           THEN /\ Finish(t, "start_failed", OutAlreadyRunning)
                /\ UNCHANGED <<proc, dirs>>
           ELSE /\ \E mk \in BOOLEAN, launched \in BOOLEAN :
                     /\ launched => mk
                     /\ dirs' = IF mk THEN dirs \cup {d} ELSE dirs \ {d}
                     /\ proc' = IF launched
                                THEN [proc EXCEPT ![p] =
                                        [kind |-> "bitcoind", phase |-> "booting",
                                         owner |-> inst[t], user |-> RPC_USER(a),
                                         pass |-> RPC_PASS(a), datadir |-> d,
                                         killable |-> TRUE]]
                                ELSE proc
                /\ pc' = [pc EXCEPT ![t] = "start_probe"]
                /\ UNCHANGED <<res, out>>
    /\ probes' = [probes EXCEPT ![t] = 0]
    /\ UNCHANGED <<config, scriptPath, scriptTmpDir, mu, client, handles, handleCfg,
                   op, inst, pid, ext, was, snap, arg, heap, held, rcfg, ctor, tmpfs,
                   clientMu, wallets, walletName>>

\* A start action that exits 0 after the launch without a probe being answered
StartReady_NoProbe(t) ==
    /\ pc[t] = "start_probe"
    /\ pc' = [pc EXCEPT ![t] = "start_connect"]
    /\ out' = [out EXCEPT ![t] = OutReady]
    /\ UNCHANGED <<config, scriptPath, scriptTmpDir, mu, client, handles, handleCfg,
                   proc, dirs, op, inst, res, pid, ext, was, snap, arg, heap, held,
                   rcfg, ctor, tmpfs, probes, clientMu, wallets, walletName>>

\* The readiness loop (lines 53-59): a turn whose bitcoin-cli getblockcount is
\* answered ends the script with exit 0
StartReady(t) ==
    /\ pc[t] = "start_probe"
    /\ CliAnswers(Args(t))
    /\ pc' = [pc EXCEPT ![t] = "start_connect"]
    /\ out' = [out EXCEPT ![t] = OutReady]
    /\ UNCHANGED <<config, scriptPath, scriptTmpDir, mu, client, handles, handleCfg,
                   proc, dirs, op, inst, res, pid, ext, was, snap, arg, heap, held,
                   rcfg, ctor, tmpfs, probes, clientMu, wallets, walletName>>

\* The readiness loop (lines 53-62): the node does not answer and the turns
\* that are left all fail: exit 1.  (The loop sleeps 0.5 s between its turns;
\* the turns in which nothing answers differ in nothing but their number.)
StartTimeout(t) ==
    /\ pc[t] = "start_probe"
    /\ ~CliAnswers(Args(t))
    /\ Finish(t, "start_failed", OutStartFailed)
    /\ UNCHANGED <<config, scriptPath, scriptTmpDir, mu, client, handles, handleCfg,
                   proc, dirs, op, inst, pid, ext, was, snap, arg, heap, held, rcfg,
                   ctor, tmpfs, probes, clientMu, wallets, walletName>>

\* A connectClient that makes a new client whatever r.client holds
connectClient_Replace(t, i) ==
    \/ /\ client' = [client EXCEPT ![i] = NewHandle]
       /\ handles' = [handles EXCEPT ![NewHandle] = "live"]
       /\ handleCfg' = [handleCfg EXCEPT ![NewHandle] = RPCConfig(i)]
       /\ Finish(t, "ok", out[t])
    \/ /\ Finish(t, "connect_failed", out[t])
       /\ UNCHANGED <<client, handles, handleCfg>>

\* r.connectClient(): keeps an existing client, else rpcclient.New(r.RPCConfig(), nil)
connectClient(t, i) ==
    IF client[i] # 0
    THEN /\ Finish(t, "ok", out[t])
         /\ UNCHANGED <<client, handles, handleCfg>>
    ELSE \/ /\ client' = [client EXCEPT ![i] = NewHandle]
            /\ handles' = [handles EXCEPT ![NewHandle] = "live"]
            /\ handleCfg' = [handleCfg EXCEPT ![NewHandle] = RPCConfig(i)]
            /\ Finish(t, "ok", out[t])
         \/ /\ Finish(t, "connect_failed", out[t])
            /\ UNCHANGED <<client, handles, handleCfg>>

\* The script exited 0: StartContext goes on to connectClient
StartConnect(t) ==
    /\ pc[t] = "start_connect"
    /\ client[inst[t]] # 0 \/ \E h \in Handles : Unused(h)
    /\ connectClient(t, inst[t])
    /\ UNCHANGED <<config, scriptPath, scriptTmpDir, mu, proc, dirs, op, inst, pid,
                   ext, was, snap, arg, heap, held, rcfg, ctor, tmpfs, probes,
                   clientMu, wallets, walletName>>

\* ctx is cancelled while the script runs: bash is killed, ctx.Err() # nil
StartCancel(t) ==
    /\ pc[t] \in {"start_run", "start_probe"}
    /\ Finish(t, "start_cancelled", <<>>)
    /\ UNCHANGED <<config, scriptPath, scriptTmpDir, mu, client, handles, handleCfg,
                   proc, dirs, op, inst, pid, ext, was, snap, arg, heap, held, rcfg,
                   ctor, tmpfs, probes, clientMu, wallets, walletName>>

-----------------------------------------------------------------------------
(* Stop *)

\* A Stop that leaves the client alone
ShutdownClient_Skip(i) == UNCHANGED <<handles, handleCfg, client>>

\* A Stop that shuts the client down and keeps the pointer
ShutdownClient_NoClear(i) ==
    IF client[i] # 0
    THEN /\ handles' = [handles EXCEPT ![client[i]] = "shut"]
         /\ UNCHANGED <<handleCfg, client>>
    ELSE UNCHANGED <<handles, handleCfg, client>>

\* Stop, lines 511-517: r.client.Shutdown(); r.client = nil
ShutdownClient(i) ==
    IF client[i] # 0
    THEN /\ handles' = [handles EXCEPT ![client[i]] = "shut"]
         /\ handleCfg' = [handleCfg EXCEPT ![client[i]] = 0]
         /\ client' = [client EXCEPT ![i] = 0]
    ELSE UNCHANGED <<handles, handleCfg, client>>

\* A Stop that returns an error, without running the script, when the instance
\* has no session
StopCall_NeedsSession(t, i) ==
    /\ Lock(t, i, "Stop")
    /\ was' = [was EXCEPT ![t] = NodeAlive(i)]
    /\ IF client[i] = 0
       THEN /\ Finish(t, "stop_failed", <<>>)
            /\ UNCHANGED <<client, handles, handleCfg>>
       ELSE /\ ShutdownClient(i)
            /\ pc' = [pc EXCEPT ![t] = "stop_run"]
            /\ UNCHANGED <<res, out>>
    /\ UNCHANGED <<config, scriptPath, scriptTmpDir, proc, dirs, pid, ext, snap, arg,
                   heap, held, rcfg, ctor, tmpfs, probes, clientMu, wallets, walletName>>

\* r.mu.Lock(); the client is shut down and cleared; exec of the stop action
StopCall(t, i) ==
    /\ Lock(t, i, "Stop")
    /\ ShutdownClient(i)
    /\ was' = [was EXCEPT ![t] = NodeAlive(i)]
    /\ IF ScriptRuns(i)
       THEN /\ pc' = [pc EXCEPT ![t] = "stop_run"]
            /\ UNCHANGED <<res, out>>
       ELSE Finish(t, "stop_failed", OutNoScript)
    /\ UNCHANGED <<config, scriptPath, scriptTmpDir, proc, dirs, pid, ext, snap, arg,
                   heap, held, rcfg, ctor, tmpfs, probes, clientMu, wallets,
                   walletName>>

\* stop_bitcoind, lines 67-83: not running: remove the data directory, exit 0;
\* running: bitcoin-cli stop, and sleep 3 when it was accepted
StopGraceful(t) ==
    /\ pc[t] = "stop_run"
    /\ LET a == Args(t)
           p == RPC_PORT(a)
       IN  IF ~is_running(a)
           THEN /\ RemoveDir(DATADIR(a))
                /\ Finish(t, "ok", OutNotRunning \o <<"\n">> \o CleaningLine(a))
                /\ UNCHANGED proc
           ELSE /\ proc' = IF CliAnswers(a)
                           THEN [proc EXCEPT ![p].phase = "exiting"]
                           ELSE proc
                /\ out' = [out EXCEPT ![t] =
                             OutStopping \o (IF CliAnswers(a) THEN OutSentStop ELSE <<>>)]
                /\ pc' = [pc EXCEPT ![t] = "stop_term"]
                /\ UNCHANGED <<res, dirs>>
    /\ UNCHANGED <<config, scriptPath, scriptTmpDir, mu, client, handles, handleCfg,
                   op, inst, pid, ext, was, snap, arg, heap, held, rcfg, ctor, tmpfs,
                   probes, clientMu, wallets, walletName>>

\* stop_bitcoind, lines 86-92: still running: PID=$(lsof), kill -TERM, sleep 2
StopTerm(t) ==
    /\ pc[t] = "stop_term"
    /\ LET a == Args(t)
           p == RPC_PORT(a)
       IN  IF ~is_running(a)
           THEN /\ RemoveDir(DATADIR(a))
                /\ Finish(t, "ok", out[t] \o CleaningLine(a) \o OutStopped)
                /\ UNCHANGED <<proc, pid>>
           ELSE /\ \E obeys \in BOOLEAN :
                     proc' = IF proc[p].killable /\ (obeys \/ proc[p].kind = "bitcoind")
                             THEN [proc EXCEPT ![p].phase = "exiting"]
                             ELSE proc
                /\ pid' = [pid EXCEPT ![t] = TRUE]
                /\ out' = [out EXCEPT ![t] = out[t] \o OutForceKill]
                /\ pc' = [pc EXCEPT ![t] = "stop_kill"]
                /\ UNCHANGED <<res, dirs>>
    /\ UNCHANGED <<config, scriptPath, scriptTmpDir, mu, client, handles, handleCfg,
                   op, inst, ext, was, snap, arg, heap, held, rcfg, ctor, tmpfs,
                   probes, clientMu, wallets, walletName>>

\* stop_bitcoind, lines 93-106: still running: kill -KILL "$PID", sleep 1; then
\* the data directory is removed and the script exits 0
StopKill(t) ==
    /\ pc[t] = "stop_kill"
    /\ LET a == Args(t)
           p == RPC_PORT(a)
       IN  /\ proc' = IF is_running(a) /\ pid[t] /\ proc[p].killable
                      THEN [proc EXCEPT ![p] = NoProc]
                      ELSE proc
           /\ RemoveDir(DATADIR(a))
           /\ Finish(t, "ok", out[t] \o CleaningLine(a) \o OutStopped)
    /\ UNCHANGED <<config, scriptPath, scriptTmpDir, mu, client, handles, handleCfg,
                   op, inst, pid, ext, was, snap, arg, heap, held, rcfg, ctor, tmpfs,
                   probes, clientMu, wallets, walletName>>

-----------------------------------------------------------------------------
(* IsRunning *)

\* r.mu.Lock(); exec of the status action
IsRunningCall(t, i) ==
    /\ Lock(t, i, "IsRunning")
    /\ IF ScriptRuns(i)
       THEN /\ pc' = [pc EXCEPT ![t] = "status_run"]
            /\ UNCHANGED <<res, out>>
       ELSE Finish(t, "status_failed", OutNoScript)
    /\ UNCHANGED <<config, scriptPath, scriptTmpDir, client, handles, handleCfg, proc,
                   dirs, pid, ext, was, snap, arg, heap, held, rcfg, ctor, tmpfs,
                   probes, clientMu, wallets, walletName>>

\* An IsRunning that looks for "running" alone
IsRunningResult_AnyRunning(o) == IF Contains(o, <<"running">>) THEN "true" ELSE "false"

\* What IsRunning makes of the output of a status action that exited 0
IsRunningResult(o) == IF Contains(o, Marker) THEN "true" ELSE "false"

\* A status action that, like the stop action, removes the data directory
IsRunningRun_Wipes(t) ==
    /\ pc[t] = "status_run"
    /\ RemoveDir(DATADIR(Args(t)))
    /\ Finish(t, IsRunningResult(status_bitcoind(Args(t))), status_bitcoind(Args(t)))
    /\ UNCHANGED <<config, scriptPath, scriptTmpDir, mu, client, handles, handleCfg,
                   proc, op, inst, pid, ext, was, snap, arg, heap, held, rcfg, ctor,
                   tmpfs, probes, clientMu, wallets, walletName>>

\* status_bitcoind, and strings.Contains(string(output), "is running")
IsRunningRun(t) ==
    /\ pc[t] = "status_run"
    /\ Finish(t, IsRunningResult(status_bitcoind(Args(t))), status_bitcoind(Args(t)))
    /\ UNCHANGED <<config, scriptPath, scriptTmpDir, mu, client, handles, handleCfg,
                   proc, dirs, op, inst, pid, ext, was, snap, arg, heap, held, rcfg,
                   ctor, tmpfs, probes, clientMu, wallets, walletName>>

-----------------------------------------------------------------------------
(* Cleanup *)

\* r.mu.Lock()
CleanupCall(t, i) ==
    /\ Lock(t, i, "Cleanup")
    /\ pc' = [pc EXCEPT ![t] = "cleanup_run"]
    /\ UNCHANGED <<config, scriptPath, scriptTmpDir, client, handles, handleCfg, proc,
                   dirs, res, out, pid, ext, was, snap, arg, heap, held, rcfg, ctor,
                   tmpfs, probes, clientMu, wallets, walletName>>

\* A Cleanup that takes a second call for an error
CleanupRun_Strict(t) ==
    /\ pc[t] = "cleanup_run"
    /\ IF scriptTmpDir[inst[t]] # ""
       THEN /\ tmpfs' = [tmpfs EXCEPT ![inst[t]] = "-"]
            /\ scriptTmpDir' = [scriptTmpDir EXCEPT ![inst[t]] = ""]
            /\ scriptPath' = [scriptPath EXCEPT ![inst[t]] = ""]
            /\ Finish(t, "ok", <<>>)
       ELSE /\ UNCHANGED <<tmpfs, scriptTmpDir, scriptPath>>
            /\ Finish(t, "cleanup_failed", <<>>)
    /\ UNCHANGED <<config, mu, client, handles, handleCfg, proc, dirs, op, inst, pid,
                   ext, was, snap, arg, heap, held, rcfg, ctor, probes, clientMu,
                   wallets, walletName>>

\* A Cleanup that puts the default configuration back
CleanupRun_ResetsConfig(t) ==
    /\ pc[t] = "cleanup_run"
    /\ config' = [config EXCEPT ![inst[t]] = DefaultConfig]
    /\ IF scriptTmpDir[inst[t]] # ""
       THEN /\ tmpfs' = [tmpfs EXCEPT ![inst[t]] = "-"]
            /\ scriptTmpDir' = [scriptTmpDir EXCEPT ![inst[t]] = ""]
            /\ scriptPath' = [scriptPath EXCEPT ![inst[t]] = ""]
       ELSE UNCHANGED <<tmpfs, scriptTmpDir, scriptPath>>
    /\ Finish(t, "ok", <<>>)
    /\ UNCHANGED <<mu, client, handles, handleCfg, proc, dirs, op, inst, pid,
                   ext, was, snap, arg, heap, held, rcfg, ctor, probes, clientMu,
                   wallets, walletName>>

\* if r.scriptTmpDir != "": os.RemoveAll(r.scriptTmpDir), both paths are
\* cleared; return nil
CleanupRun(t) ==
    /\ pc[t] = "cleanup_run"
    /\ IF scriptTmpDir[inst[t]] # ""
       THEN /\ tmpfs' = [tmpfs EXCEPT ![inst[t]] = "-"]
            /\ scriptTmpDir' = [scriptTmpDir EXCEPT ![inst[t]] = ""]
            /\ scriptPath' = [scriptPath EXCEPT ![inst[t]] = ""]
       ELSE UNCHANGED <<tmpfs, scriptTmpDir, scriptPath>>
    /\ Finish(t, "ok", <<>>)
    /\ UNCHANGED <<config, mu, client, handles, handleCfg, proc, dirs, op, inst, pid,
                   ext, was, snap, arg, heap, held, rcfg, ctor, probes, clientMu,
                   wallets, walletName>>

-----------------------------------------------------------------------------
(* The RPC helpers: GetBlockCount, and alike GetWalletInformation,          *)
(* CreateWallet, Warp, SendToAddress, ...: each copies r.client under       *)
(* clientMu.RLock, releases the lock, and then uses its copy.               *)

\* r.clientMu.RLock(); client := r.client; r.clientMu.RUnlock()
GetBlockCountCall(t, i) ==
    /\ pc[t] = "idle"
    /\ snap' = [snap EXCEPT ![t] = client[i]]
    /\ op' = [op EXCEPT ![t] = "GetBlockCount"]
    /\ inst' = [inst EXCEPT ![t] = i]
    /\ pc' = [pc EXCEPT ![t] = "rpc_req"]
    /\ UNCHANGED <<config, scriptPath, scriptTmpDir, mu, client, handles, handleCfg,
                   proc, dirs, res, out, pid, ext, was, arg, heap, held, rcfg, ctor,
                   tmpfs, probes, clientMu, wallets, walletName>>

\* if client == nil: "RPC client not connected"; else client.GetBlockCount(),
\* a request on the copied handle, which is live or has been shut down since
GetBlockCountRequest(t) ==
    /\ pc[t] = "rpc_req"
    /\ pc' = [pc EXCEPT ![t] = "rpc_ret"]
    /\ res' = [res EXCEPT ![t] =
                 IF snap[t] = 0 THEN "not_connected"
                 ELSE IF handles[snap[t]] = "live" THEN "requested_on_live"
                 ELSE "requested_on_shut"]
    /\ UNCHANGED <<config, scriptPath, scriptTmpDir, mu, client, handles, handleCfg,
                   proc, dirs, op, inst, out, pid, ext, was, snap, arg, heap, held,
                   rcfg, ctor, tmpfs, probes, clientMu, wallets, walletName>>

\* The helper returns; its local copy goes out of scope
GetBlockCountReturn(t) ==
    /\ pc[t] = "rpc_ret"
    /\ pc' = [pc EXCEPT ![t] = "idle"]
    /\ op' = [op EXCEPT ![t] = "-"]
    /\ inst' = [inst EXCEPT ![t] = 0]
    /\ res' = [res EXCEPT ![t] = "none"]
    /\ snap' = [snap EXCEPT ![t] = 0]
    /\ UNCHANGED <<config, scriptPath, scriptTmpDir, mu, client, handles, handleCfg,
                   proc, dirs, out, pid, ext, was, arg, heap, held, rcfg, ctor, tmpfs,
                   probes, clientMu, wallets, walletName>>

-----------------------------------------------------------------------------
(* The call returns: the deferred r.mu.Unlock() *)

Return(t) ==
    /\ pc[t] = "ret"
    /\ mu' = [mu EXCEPT ![inst[t]] = 0]
    /\ pc' = [pc EXCEPT ![t] = "idle"]
    /\ op' = [op EXCEPT ![t] = "-"]
    /\ inst' = [inst EXCEPT ![t] = 0]
    /\ was' = [was EXCEPT ![t] = FALSE]
    /\ res' = [res EXCEPT ![t] = "none"]
    /\ out' = [out EXCEPT ![t] = <<>>]
    /\ pid' = [pid EXCEPT ![t] = FALSE]
    /\ ext' = [ext EXCEPT ![t] = FALSE]
    /\ probes' = [probes EXCEPT ![t] = 0]
    /\ UNCHANGED <<config, scriptPath, scriptTmpDir, client, handles, handleCfg, proc,
                   dirs, snap, arg, heap, held, rcfg, ctor, tmpfs, clientMu, wallets,
                   walletName>>

-----------------------------------------------------------------------------
(* The environment: the processes of the machine *)

\* The node launched on port p finishes its warm-up and answers RPC
NodeReady(p) ==
    /\ proc[p].kind = "bitcoind"
    /\ proc[p].phase = "booting"
    /\ proc' = [proc EXCEPT ![p].phase = "up"]
    /\ UNCHANGED <<config, scriptPath, scriptTmpDir, mu, client, handles, handleCfg,
                   dirs, pc, op, inst, res, out, pid, ext, was, snap, arg, heap, held,
                   rcfg, ctor, tmpfs, probes, clientMu, wallets, walletName>>

\* The process on port p exits: a node asked to stop, or one that dies on its
\* own.  A $PID read before names no process any more, and a Start past its
\* readiness probe notes the death it did not cause.
ProcExit(p) ==
    /\ proc[p].kind # "none"
    /\ proc' = [proc EXCEPT ![p] = NoProc]
    /\ pid' = [t \in Threads |->
                 IF pc[t] = "stop_kill" /\ RPC_PORT(Args(t)) = p THEN FALSE ELSE pid[t]]
    /\ ext' = [t \in Threads |->
                 IF /\ pc[t] \in {"start_connect", "ret"}
                    /\ op[t] = "Start"
                    /\ RPC_PORT(Args(t)) = p
                    /\ proc[p].phase # "exiting"
                 THEN TRUE ELSE ext[t]]
    /\ UNCHANGED <<config, scriptPath, scriptTmpDir, mu, client, handles, handleCfg,
                   dirs, pc, op, inst, res, out, was, snap, arg, heap, held, rcfg,
                   ctor, tmpfs, probes, clientMu, wallets, walletName>>

\* The ports the scripts of the instances look at
ScriptPorts == {RPC_PORT(ScriptArgs(i, "status")) : i \in Instances}

\* A process the library did not start binds port p, one of the ports the
\* program looks at (a process on any other port is invisible to it)
ForeignBind(p) ==
    /\ proc[p].kind = "none"
    /\ \E k \in BOOLEAN :
         proc' = [proc EXCEPT ![p] = [NoProc EXCEPT !.kind = "foreign", !.killable = k]]
    /\ UNCHANGED <<config, scriptPath, scriptTmpDir, mu, client, handles, handleCfg,
                   dirs, pc, op, inst, res, out, pid, ext, was, snap, arg, heap, held,
                   rcfg, ctor, tmpfs, probes, clientMu, wallets, walletName>>

-----------------------------------------------------------------------------

Next ==
    \/ \E t \in Threads, i \in Instances : StartCall(t, i)
    \/ \E t \in Threads : StartLaunch(t)
    \/ \E t \in Threads : StartReady(t)
    \/ \E t \in Threads : StartTimeout(t)
    \/ \E t \in Threads : StartConnect(t)
    \/ \E t \in Threads : StartCancel(t)
    \/ \E t \in Threads, i \in Instances : StopCall(t, i)
    \/ \E t \in Threads : StopGraceful(t)
    \/ \E t \in Threads : StopTerm(t)
    \/ \E t \in Threads : StopKill(t)
    \/ \E t \in Threads, i \in Instances : IsRunningCall(t, i)
    \/ \E t \in Threads : IsRunningRun(t)
    \/ \E t \in Threads, i \in Instances : CleanupCall(t, i)
    \/ \E t \in Threads : CleanupRun(t)
    \/ \E t \in Threads : Return(t)
    \/ \E p \in Ports : NodeReady(p)
    \/ \E p \in Ports : ProcExit(p)
    \/ \E p \in ScriptPorts : ForeignBind(p)

Spec == Init /\ [][Next]_vars

\* The state after New on a machine where data directories may already exist
\* (left by an earlier run or made by the caller): New does not look at them
InitDirs ==
    /\ config \in ConfigChoices
    /\ scriptPath = [i \in Instances |-> "staged"]
    /\ scriptTmpDir = [i \in Instances |-> "tmp"]
    /\ mu = [i \in Instances |-> 0]
    /\ client = [i \in Instances |-> 0]
    /\ handles = [h \in Handles |-> "free"]
    /\ handleCfg = [h \in Handles |-> 0]
    /\ proc = [p \in Ports |-> NoProc]
    /\ dirs \in SUBSET DataDirs
    /\ pc = [t \in Threads |-> "idle"]
    /\ op = [t \in Threads |-> "-"]
    /\ inst = [t \in Threads |-> 0]
    /\ was = [t \in Threads |-> FALSE]
    /\ res = [t \in Threads |-> "none"]
    /\ out = [t \in Threads |-> <<>>]
    /\ pid = [t \in Threads |-> FALSE]
    /\ ext = [t \in Threads |-> FALSE]
    /\ snap = [t \in Threads |-> 0]
    /\ arg = [t \in Threads |-> NoArg]
    /\ heap = HeapOf(config).heap
    /\ held = [x \in CallerVars |-> 0]
    /\ rcfg = HeapOf(config).refs
    /\ ctor = [i \in Instances |->
                 [state |-> "ready", how |-> IF i = 1 THEN "nil" ELSE "given",
                  arg |-> IF i = 1 THEN NoConfig ELSE config[i]]]
    /\ tmpfs = [i \in Instances |-> "script"]
    /\ probes = [t \in Threads |-> 0]
    /\ clientMu = [i \in Instances |-> [w |-> 0, r |-> {}]]
    /\ wallets = [w \in WalletNames |-> "absent"]
    /\ walletName = [t \in Threads |-> <<>>]

SpecDirs == InitDirs /\ [][Next]_vars

\* The lifecycle methods together with callers of the RPC helpers
NextRPC ==
    \/ Next
    \/ \E t \in Threads, i \in Instances : GetBlockCountCall(t, i)
    \/ \E t \in Threads : GetBlockCountRequest(t)
    \/ \E t \in Threads : GetBlockCountReturn(t)

SpecRPC == Init /\ [][NextRPC]_vars

-----------------------------------------------------------------------------
(* New and initialize, Config(), and what callers do with the *Config       *)
(* pointers they hold.  The steps of initialize are steps of their own: the *)
(* file system answers each of them.                                        *)

\* The variables of the lifecycle calls, which construction does not touch
callVars == <<mu, client, handles, handleCfg, proc, dirs, pc, op, inst, res, out,
              pid, ext, was, snap, arg, probes, clientMu, wallets, walletName>>

\* The pointers that keep objects alive: r.config of the instances and the
\* caller's variables
Roots(rc, hd) == ({rc[i] : i \in Instances} \cup {hd[x] : x \in CallerVars}) \ {0}

\* The caller, one goroutine, is not inside New
CallerFree == \A i \in Instances : ctor[i].state \notin {"initialize", "mkdir", "write"}

\* cfg := &Config{...}, a literal of the caller
MakeConfig(v) ==
    /\ CallerFree
    /\ Room(heap)
    /\ held' = [held EXCEPT !["cfg"] = Store(heap, v).ref]
    /\ heap' = Collect(Store(heap, v).heap, Roots(rcfg, held'))
    /\ UNCHANGED <<config, scriptPath, scriptTmpDir, rcfg, ctor, tmpfs, callVars>>

\* What Test_Config assigns to a field
Modified(f) == IF f = "Host" THEN <<"modified">> ELSE "modified"

\* The string fields of a Config
StringFields == {"Host", "User", "Pass", "DataDir"}

\* cfg.Host = "modified", and alike User, Pass, DataDir: the caller changes
\* one string field of a Config it holds
Mutate(r, f) ==
    /\ CallerFree
    /\ \E x \in CallerVars : held[x] = r
    /\ \A g \in StringFields : heap[r][g] # Modified(g)
    /\ heap' = [heap EXCEPT ![r] = [heap[r] EXCEPT ![f] = Modified(f)]]
    /\ UNCHANGED <<config, scriptPath, scriptTmpDir, held, rcfg, ctor, tmpfs, callVars>>

\* cfg.ExtraArgs[0] = "modified"
MutateElem(r) ==
    /\ CallerFree
    /\ \E x \in CallerVars : held[x] = r
    /\ heap[r].ExtraArgs # 0
    /\ heap[heap[r].ExtraArgs].elems # <<"modified">>
    /\ heap' = [heap EXCEPT ![heap[r].ExtraArgs] =
                   [kind |-> "array", elems |-> <<"modified">>]]
    /\ UNCHANGED <<config, scriptPath, scriptTmpDir, held, rcfg, ctor, tmpfs, callVars>>

\* A New that takes nil for the zero Config
NewConfig_ZeroForNil(h, a) == IF a = 0 THEN Store(h, NoConfig) ELSE CopyConfig(h, a)

\* New, lines 325-336: DefaultConfig() for nil, else a copy of *config
NewConfig(h, a) == IF a = 0 THEN Store(h, DefaultConfig) ELSE CopyConfig(h, a)

\* New(config) up to the call of rt.initialize(); a is the pointer passed, 0
\* for nil, and what it points to is a literal as the caller wrote it
New(i, a) ==
    /\ CallerFree
    /\ ctor[i].state = "none"
    /\ \A k \in Instances : k < i => ctor[k].state # "none"
    /\ a # 0 => (a = held["cfg"] /\ Deep(heap, a) \in CallerConfigs)
    /\ Room(heap)
    /\ LET n == NewConfig(heap, a)
       IN  /\ heap' = n.heap
           /\ rcfg' = [rcfg EXCEPT ![i] = n.ref]
           /\ config' = [config EXCEPT ![i] = Deep(n.heap, n.ref)]
    /\ ctor' = [ctor EXCEPT ![i] =
                  [state |-> "initialize", how |-> IF a = 0 THEN "nil" ELSE "given",
                   arg |-> IF a = 0 THEN NoConfig ELSE Deep(heap, a)]]
    /\ UNCHANGED <<scriptPath, scriptTmpDir, held, tmpfs, callVars>>

\* initialize returned an error: New returns nil, err, and rt is garbage
NoInstance(i, err) ==
    /\ ctor' = [ctor EXCEPT ![i].state = err]
    /\ rcfg' = [rcfg EXCEPT ![i] = 0]
    /\ config' = [config EXCEPT ![i] = NoConfig]
    /\ scriptTmpDir' = [scriptTmpDir EXCEPT ![i] = ""]
    /\ scriptPath' = [scriptPath EXCEPT ![i] = ""]
    /\ heap' = Collect(heap, Roots(rcfg', held))

\* initialize: exec.LookPath("bitcoind")
LookPath(i, found) ==
    /\ ctor[i].state = "initialize"
    /\ IF found
       THEN /\ ctor' = [ctor EXCEPT ![i].state = "mkdir"]
            /\ UNCHANGED <<config, scriptPath, scriptTmpDir, heap, rcfg>>
       ELSE NoInstance(i, "no_bitcoind")
    /\ UNCHANGED <<held, tmpfs, callVars>>

\* initialize: os.MkdirTemp("", "go-regtest-*"); r.scriptTmpDir = tmpDir
MkdirTemp(i, ok) ==
    /\ ctor[i].state = "mkdir"
    /\ IF ok
       THEN /\ tmpfs' = [tmpfs EXCEPT ![i] = "empty"]
            /\ scriptTmpDir' = [scriptTmpDir EXCEPT ![i] = "tmp"]
            /\ ctor' = [ctor EXCEPT ![i].state = "write"]
            /\ UNCHANGED <<config, scriptPath, heap, rcfg>>
       ELSE /\ NoInstance(i, "mkdir_failed")
            /\ UNCHANGED tmpfs
    /\ UNCHANGED <<held, callVars>>

\* An initialize that returns the error of os.WriteFile and removes nothing
WriteFile_NoRemove(i, ok) ==
    /\ ctor[i].state = "write"
    /\ IF ok
       THEN /\ tmpfs' = [tmpfs EXCEPT ![i] = "script"]
            /\ scriptPath' = [scriptPath EXCEPT ![i] = "staged"]
            /\ ctor' = [ctor EXCEPT ![i].state = "ready"]
            /\ UNCHANGED <<config, scriptTmpDir, heap, rcfg>>
       ELSE /\ UNCHANGED tmpfs
            /\ NoInstance(i, "write_failed")
    /\ UNCHANGED <<held, callVars>>

\* initialize: os.WriteFile(scriptPath, ...); on an error os.RemoveAll(tmpDir);
\* else r.scriptPath = scriptPath and New returns rt
WriteFile(i, ok) ==
    /\ ctor[i].state = "write"
    /\ IF ok
       THEN /\ tmpfs' = [tmpfs EXCEPT ![i] = "script"]
            /\ scriptPath' = [scriptPath EXCEPT ![i] = "staged"]
            /\ ctor' = [ctor EXCEPT ![i].state = "ready"]
            /\ UNCHANGED <<config, scriptTmpDir, heap, rcfg>>
       ELSE /\ tmpfs' = [tmpfs EXCEPT ![i] = "-"]
            /\ NoInstance(i, "write_failed")
    /\ UNCHANGED <<held, callVars>>

\* cfg := rt.Config(): a copy of *r.config, which the caller holds from now on
ConfigCall(i) ==
    /\ CallerFree
    /\ ctor[i].state = "ready"
    /\ Room(heap)
    /\ held' = [held EXCEPT !["got"] = CopyConfig(heap, rcfg[i]).ref]
    /\ heap' = Collect(CopyConfig(heap, rcfg[i]).heap, Roots(rcfg, held'))
    /\ UNCHANGED <<config, scriptPath, scriptTmpDir, rcfg, ctor, tmpfs, callVars>>

\* No New has been called yet
InitNew ==
    /\ config = [i \in Instances |-> NoConfig]
    /\ scriptPath = [i \in Instances |-> ""]
    /\ scriptTmpDir = [i \in Instances |-> ""]
    /\ mu = [i \in Instances |-> 0]
    /\ client = [i \in Instances |-> 0]
    /\ handles = [h \in Handles |-> "free"]
    /\ handleCfg = [h \in Handles |-> 0]
    /\ proc = [p \in Ports |-> NoProc]
    /\ dirs = {}
    /\ pc = [t \in Threads |-> "idle"]
    /\ op = [t \in Threads |-> "-"]
    /\ inst = [t \in Threads |-> 0]
    /\ was = [t \in Threads |-> FALSE]
    /\ res = [t \in Threads |-> "none"]
    /\ out = [t \in Threads |-> <<>>]
    /\ pid = [t \in Threads |-> FALSE]
    /\ ext = [t \in Threads |-> FALSE]
    /\ snap = [t \in Threads |-> 0]
    /\ arg = [t \in Threads |-> NoArg]
    /\ heap = [r \in Refs |-> NoObject]
    /\ held = [x \in CallerVars |-> 0]
    /\ rcfg = [i \in Instances |-> 0]
    /\ ctor = [i \in Instances |-> [state |-> "none", how |-> "-", arg |-> NoConfig]]
    /\ tmpfs = [i \in Instances |-> "-"]
    /\ probes = [t \in Threads |-> 0]
    /\ clientMu = [i \in Instances |-> [w |-> 0, r |-> {}]]
    /\ wallets = [w \in WalletNames |-> "absent"]
    /\ walletName = [t \in Threads |-> <<>>]

\* The caller makes, passes, reads back and changes configurations; the
\* instances are numbered in the order of their construction
NextNew ==
    \/ \E v \in CallerConfigs : MakeConfig(v)
    \/ \E i \in Instances, a \in {0} \cup Refs : New(i, a)
    \/ \E i \in Instances, found \in BOOLEAN : LookPath(i, found)
    \/ \E i \in Instances, ok \in BOOLEAN : MkdirTemp(i, ok)
    \/ \E i \in Instances, ok \in BOOLEAN : WriteFile(i, ok)
    \/ \E i \in Instances : ConfigCall(i)
    \/ \E r \in Refs, f \in StringFields : Mutate(r, f)
    \/ \E r \in Refs : MutateElem(r)

SpecNew == InitNew /\ [][NextNew]_vars

-----------------------------------------------------------------------------
(* The RPC helpers that take an address, an amount or a number of blocks.   *)
(* Each is the function of the client it copied and of its arguments that   *)
(* tells how the call ends: with one of its own errors, or with a request   *)
(* sent on the client ("requested"; what the node answers is not modelled). *)

\* btcutil.DecodeAddress(s, &chaincfg.RegressionNetParams) returns no error
DecodeAddress(s) == s = "bcrt1q"

\* Warp(blocks, miner)
Warp(c, blocks, miner) ==
    IF c = 0 THEN "not_connected"
    ELSE IF blocks <= 0 THEN "blocks_not_positive"
    ELSE IF miner = "" THEN "miner_empty"
    ELSE IF ~DecodeAddress(miner) THEN "decode_failed"
    ELSE "requested"

\* SendToAddress(addressStr, sats)
SendToAddress(c, addressStr, sats) ==
    IF c = 0 THEN "not_connected"
    ELSE IF sats <= 0 THEN "amount_not_positive"
    ELSE IF addressStr = "" THEN "address_empty"
    ELSE IF ~DecodeAddress(addressStr) THEN "decode_failed"
    ELSE "requested"

\* ScanTxOutSetForAddress(address): the descriptor addr(<address>) is sent
\* with client.RawRequest("scantxoutset", ...) whatever the address is
ScanTxOutSetForAddress(c, address) ==
    IF c = 0 THEN "not_connected" ELSE "requested"

HelperOps == {"Warp", "SendToAddress", "ScanTxOutSetForAddress"}

\* r.clientMu.RLock(); client := r.client; r.clientMu.RUnlock()
HelperCall(t, i, o, address, n) ==
    /\ pc[t] = "idle"
    /\ snap' = [snap EXCEPT ![t] = client[i]]
    /\ arg' = [arg EXCEPT ![t] = [address |-> address, n |-> n]]
    /\ op' = [op EXCEPT ![t] = o]
    /\ inst' = [inst EXCEPT ![t] = i]
    /\ pc' = [pc EXCEPT ![t] = "helper_run"]
    /\ UNCHANGED <<config, scriptPath, scriptTmpDir, mu, client, handles, handleCfg,
                   proc, dirs, res, out, pid, ext, was, heap, held, rcfg, ctor, tmpfs,
                   probes, clientMu, wallets, walletName>>

\* The body of the helper after the copy
HelperRun(t) ==
    /\ pc[t] = "helper_run"
    /\ pc' = [pc EXCEPT ![t] = "helper_ret"]
    /\ res' = [res EXCEPT ![t] =
                 IF op[t] = "Warp" THEN Warp(snap[t], arg[t].n, arg[t].address)
                 ELSE IF op[t] = "SendToAddress"
                      THEN SendToAddress(snap[t], arg[t].address, arg[t].n)
                 ELSE ScanTxOutSetForAddress(snap[t], arg[t].address)]
    /\ UNCHANGED <<config, scriptPath, scriptTmpDir, mu, client, handles, handleCfg,
                   proc, dirs, op, inst, out, pid, ext, was, snap, arg, heap, held,
                   rcfg, ctor, tmpfs, probes, clientMu, wallets, walletName>>

\* The helper returns
HelperReturn(t) ==
    /\ pc[t] = "helper_ret"
    /\ pc' = [pc EXCEPT ![t] = "idle"]
    /\ op' = [op EXCEPT ![t] = "-"]
    /\ inst' = [inst EXCEPT ![t] = 0]
    /\ res' = [res EXCEPT ![t] = "none"]
    /\ snap' = [snap EXCEPT ![t] = 0]
    /\ arg' = [arg EXCEPT ![t] = NoArg]
    /\ walletName' = [walletName EXCEPT ![t] = <<>>]
    /\ UNCHANGED <<config, scriptPath, scriptTmpDir, mu, client, handles, handleCfg,
                   proc, dirs, out, pid, ext, was, heap, held, rcfg, ctor, tmpfs,
                   probes, clientMu, wallets>>

\* The state after a Start of the first instance has returned success: its
\* node is up and its session is held; the second instance is Ready
InitConnected ==
    /\ config \in ConfigChoices
    /\ scriptPath = [i \in Instances |-> "staged"]
    /\ scriptTmpDir = [i \in Instances |-> "tmp"]
    /\ mu = [i \in Instances |-> 0]
    /\ client = [i \in Instances |-> IF i = 1 THEN 1 ELSE 0]
    /\ handles = [h \in Handles |-> IF h = 1 THEN "live" ELSE "free"]
    /\ handleCfg = [h \in Handles |-> IF h = 1 THEN RPCConfig(1) ELSE 0]
    /\ proc = [p \in Ports |->
                 IF p = <<"18443">>
                 THEN [kind |-> "bitcoind", phase |-> "up", owner |-> 1, user |-> "user",
                       pass |-> "pass", datadir |-> "bitcoind_regtest", killable |-> TRUE]
                 ELSE NoProc]
    /\ dirs = {"bitcoind_regtest"}
    /\ pc = [t \in Threads |-> "idle"]
    /\ op = [t \in Threads |-> "-"]
    /\ inst = [t \in Threads |-> 0]
    /\ was = [t \in Threads |-> FALSE]
    /\ res = [t \in Threads |-> "none"]
    /\ out = [t \in Threads |-> <<>>]
    /\ pid = [t \in Threads |-> FALSE]
    /\ ext = [t \in Threads |-> FALSE]
    /\ snap = [t \in Threads |-> 0]
    /\ arg = [t \in Threads |-> NoArg]
    /\ heap = HeapOf(config).heap
    /\ held = [x \in CallerVars |-> 0]
    /\ rcfg = HeapOf(config).refs
    /\ ctor = [i \in Instances |->
                 [state |-> "ready", how |-> IF i = 1 THEN "nil" ELSE "given",
                  arg |-> IF i = 1 THEN NoConfig ELSE config[i]]]
    /\ tmpfs = [i \in Instances |-> "script"]
    /\ probes = [t \in Threads |-> 0]
    /\ clientMu = [i \in Instances |-> [w |-> 0, r |-> {}]]
    /\ wallets = [w \in WalletNames |-> "absent"]
    /\ walletName = [t \in Threads |-> <<>>]

\* Callers of the helpers, with every argument
NextArgs ==
    \/ \E t \in Threads, i \in Instances, o \in HelperOps,
          address \in Addresses, n \in Numbers : HelperCall(t, i, o, address, n)
    \/ \E t \in Threads : HelperRun(t)
    \/ \E t \in Threads : HelperReturn(t)

SpecArgs == InitConnected /\ [][NextArgs]_vars

-----------------------------------------------------------------------------
(* Instances configured with hosts of every shape *)

\* The state after New has constructed the first instance with one of the
\* hosts and the second with ConfigB
InitHosts ==
    /\ config \in {<<[DefaultConfig EXCEPT !.Host = h], ConfigB>> : h \in Hosts}
    /\ scriptPath = [i \in Instances |-> "staged"]
    /\ scriptTmpDir = [i \in Instances |-> "tmp"]
    /\ mu = [i \in Instances |-> 0]
    /\ client = [i \in Instances |-> 0]
    /\ handles = [h \in Handles |-> "free"]
    /\ handleCfg = [h \in Handles |-> 0]
    /\ proc = [p \in Ports |-> NoProc]
    /\ dirs = {}
    /\ pc = [t \in Threads |-> "idle"]
    /\ op = [t \in Threads |-> "-"]
    /\ inst = [t \in Threads |-> 0]
    /\ was = [t \in Threads |-> FALSE]
    /\ res = [t \in Threads |-> "none"]
    /\ out = [t \in Threads |-> <<>>]
    /\ pid = [t \in Threads |-> FALSE]
    /\ ext = [t \in Threads |-> FALSE]
    /\ snap = [t \in Threads |-> 0]
    /\ arg = [t \in Threads |-> NoArg]
    /\ heap = HeapOf(config).heap
    /\ held = [x \in CallerVars |-> 0]
    /\ rcfg = HeapOf(config).refs
    /\ ctor = [i \in Instances |-> [state |-> "ready", how |-> "given", arg |-> config[i]]]
    /\ tmpfs = [i \in Instances |-> "script"]
    /\ probes = [t \in Threads |-> 0]
    /\ clientMu = [i \in Instances |-> [w |-> 0, r |-> {}]]
    /\ wallets = [w \in WalletNames |-> "absent"]
    /\ walletName = [t \in Threads |-> <<>>]

\* Start, Stop and IsRunning, and the nodes they launch
NextHosts ==
    \/ \E t \in Threads, i \in Instances : StartCall(t, i)
    \/ \E t \in Threads : StartLaunch(t)
    \/ \E t \in Threads : StartReady(t)
    \/ \E t \in Threads : StartTimeout(t)
    \/ \E t \in Threads : StartConnect(t)
    \/ \E t \in Threads, i \in Instances : StopCall(t, i)
    \/ \E t \in Threads : StopGraceful(t)
    \/ \E t \in Threads : StopTerm(t)
    \/ \E t \in Threads : StopKill(t)
    \/ \E t \in Threads, i \in Instances : IsRunningCall(t, i)
    \/ \E t \in Threads : IsRunningRun(t)
    \/ \E t \in Threads : Return(t)
    \/ \E p \in Ports : NodeReady(p)
    \/ \E p \in Ports : ProcExit(p)

SpecHosts == InitHosts /\ [][NextHosts]_vars

-----------------------------------------------------------------------------
(* What callers observe *)

\* What an IsRunning call on instance i that runs now returns
IsRunningNow(i) ==
    IF ScriptRuns(i)
    THEN IsRunningResult(status_bitcoind(ScriptArgs(i, "status")))
    ELSE "status_failed"

\* The node instance i launched is running and answers RPC
Running(i) ==
    \E p \in Ports : proc[p].kind = "bitcoind" /\ proc[p].owner = i /\ proc[p].phase = "up"

\* No process the library did not start is bound to a port
NoForeign == \A p \in Ports : proc[p].kind # "foreign"

\* Thread t is at the return of a call of method o
Returning(t, o) == pc[t] = "ret" /\ op[t] = o

-----------------------------------------------------------------------------
(* C1 *)

\* C1: whenever no lifecycle call of an instance is in progress, the instance
\* holds a session (Client() # nil) if and only if the node it launched is
\* running and answering RPC.
C1_SessionIffRunning ==
    \A i \in Instances : mu[i] = 0 => ((client[i] # 0) <=> Running(i))

-----------------------------------------------------------------------------
(* C2 *)

\* C2: when a Stop call returns, with success or with an error, the instance
\* holds no session, and no live session bound to the instance is left: the
\* one it held has been shut down.
C2_NoSessionAfterStop ==
    \A t \in Threads :
        Returning(t, "Stop") =>
            /\ client[inst[t]] = 0
            /\ \A h \in Handles :
                   handles[h] = "live" => handleCfg[h] # RPCConfig(inst[t])

\* A Stop that returns an error (the script is gone) after it shut a session down
C2_Witness ==
    \E t \in Threads :
        /\ Returning(t, "Stop")
        /\ res[t] = "stop_failed"
        /\ \E h \in Handles : handles[h] = "shut"

-----------------------------------------------------------------------------
(* C3 *)

\* C3: when Start returns success (and the node did not die on its own since
\* it answered the readiness probe), an IsRunning that follows returns true,
\* and Client() is a live session bound to the instance's RPCConfig.
C3_StartOkThenRunning ==
    \A t \in Threads :
        (Returning(t, "Start") /\ res[t] = "ok" /\ ~ext[t]) =>
            /\ IsRunningNow(inst[t]) = "true"
            /\ client[inst[t]] # 0
            /\ handles[client[inst[t]]] = "live"
            /\ handleCfg[client[inst[t]]] = RPCConfig(inst[t])

-----------------------------------------------------------------------------
(* C4 *)

\* C4: when Stop returns success (on a machine with no foreign process on a
\* port), the instance's node is not alive and an IsRunning that follows
\* returns false with no error.
C4_StopOkThenNotRunning ==
    \A t \in Threads :
        (Returning(t, "Stop") /\ res[t] = "ok" /\ NoForeign) =>
            /\ ~NodeAlive(inst[t])
            /\ IsRunningNow(inst[t]) = "false"

-----------------------------------------------------------------------------
(* C5 *)

\* C5: a Stop of an instance whose node was not running when it was called
\* returns success, and an IsRunning that follows returns false.  (Stated
\* for an instance that still has its script and a machine with no foreign
\* process, which the claim does not require.)
C5_StopWhenNotRunning ==
    \A t \in Threads :
        (Returning(t, "Stop") /\ ~was[t] /\ ScriptRuns(inst[t]) /\ NoForeign) =>
            /\ res[t] = "ok"
            /\ IsRunningNow(inst[t]) = "false"

-----------------------------------------------------------------------------
(* C6 *)

\* C6: a Start of an instance that has no node of its own, whose configured
\* port is free, is not refused as "already running" because another
\* instance runs on a different port: both can be running at once.
C6_SecondStartNotRefused ==
    \A t \in Threads :
        (/\ Returning(t, "Start")
         /\ ~NodeAlive(inst[t])
         /\ proc[extractPort(inst[t])].kind = "none"
         /\ NoForeign)
        => ~(res[t] = "start_failed" /\ out[t] = OutAlreadyRunning)

-----------------------------------------------------------------------------
(* C7 *)

\* A step of a Stop call by thread t
StopStep(t) == pc'[t] # pc[t] /\ (op[t] = "Stop" \/ op'[t] = "Stop")

\* C7: no step of a Stop of one instance changes the node process, the data
\* directory or the session of another instance.
C7_StopLeavesOtherUnchanged ==
    [][\A t \in Threads : StopStep(t) =>
          \A j \in Instances \ {inst'[t], inst[t]} :
              /\ \A p \in Ports : proc[p].owner = j => proc'[p] = proc[p]
              /\ (config[j].DataDir \in dirs) <=> (config[j].DataDir \in dirs')
              /\ client'[j] = client[j]]_vars

-----------------------------------------------------------------------------
(* C8 *)

\* C8: the node an instance launches listens on the port of the instance's
\* Host, with the instance's User and Pass, in the instance's DataDir.
C8_ActsOnOwnConfig ==
    \A p \in Ports :
        proc[p].kind = "bitcoind" =>
            /\ p = extractPort(proc[p].owner)
            /\ proc[p].user = config[proc[p].owner].User
            /\ proc[p].pass = config[proc[p].owner].Pass
            /\ proc[p].datadir = config[proc[p].owner].DataDir

-----------------------------------------------------------------------------
(* C9 *)

\* The threads between acquiring and releasing the lifecycle lock of instance i
Inside(i) ==
    {t \in Threads : pc[t] # "idle" /\ inst[t] = i /\ op[t] # "GetBlockCount"}

\* C9: for each instance at most one thread is between acquiring and
\* releasing the lifecycle lock, and it is the thread recorded as its holder;
\* so at most one controller action of the instance runs at a time.
C9_MutualExclusion ==
    \A i \in Instances :
        /\ Cardinality(Inside(i)) <= 1
        /\ \A t \in Inside(i) : mu[i] = t

\* One thread runs a controller action of an instance while another thread,
\* ready to call, is kept out of that instance
C9_Witness ==
    \E i \in Instances, t1, t2 \in Threads :
        /\ t1 # t2
        /\ pc[t1] \in {"start_run", "start_probe", "stop_run", "stop_term",
                       "stop_kill", "status_run"}
        /\ inst[t1] = i
        /\ pc[t2] = "idle"
        /\ ~CanLock(i)

-----------------------------------------------------------------------------
(* C10 *)

\* C10: while a thread holds the lifecycle lock of one instance, a thread
\* ready to call any lifecycle method of another instance, whose own lock is
\* free, acquires it and proceeds.
C10_InstancesIndependent ==
    \A t \in Threads, i, j \in Instances :
        (i # j /\ mu[i] # 0 /\ mu[j] = 0 /\ pc[t] = "idle") =>
            /\ ENABLED StartCall(t, j)
            /\ ENABLED StopCall(t, j)
            /\ ENABLED IsRunningCall(t, j)
            /\ ENABLED CleanupCall(t, j)

\* Two threads are inside lifecycle calls of two different instances at once
C10_Witness ==
    \E t1, t2 \in Threads :
        /\ t1 # t2
        /\ pc[t1] # "idle" /\ pc[t2] # "idle"
        /\ inst[t1] # inst[t2]
        /\ mu[inst[t1]] = t1 /\ mu[inst[t2]] = t2

-----------------------------------------------------------------------------
(* C11 *)

\* C11: at the return of a Start, Stop or IsRunning call (no foreign process
\* on a port), the instance is either Running (its node alive, a session
\* held, IsRunning true) or Ready (no node, no session, IsRunning false).
C11_RunningOrReadyAtReturn ==
    \A t \in Threads :
        (pc[t] = "ret" /\ op[t] \in {"Start", "Stop", "IsRunning"} /\ NoForeign) =>
            LET i == inst[t]
            IN  \/ NodeAlive(i) /\ client[i] # 0 /\ IsRunningNow(i) = "true"
                \/ ~NodeAlive(i) /\ client[i] = 0 /\ IsRunningNow(i) = "false"

-----------------------------------------------------------------------------
(* C12 *)

\* C12: an RPC helper that runs concurrently with Stop either sends its
\* request on a session that has not been shut down or returns "RPC client
\* not connected"; it never sends a request on a session Stop has shut down.
C12_NoRequestOnShutSession ==
    \A t \in Threads :
        pc[t] = "rpc_ret" => res[t] \in {"requested_on_live", "not_connected"}

-----------------------------------------------------------------------------
(* C13 *)

\* C13: when a Start of an instance whose node was not running returns a
\* start failure (no foreign process on a port), the error carries script
\* output, the instance holds no session, no node of the instance is alive
\* and an IsRunning that follows returns false.
C13_FailedStartLeavesNoNode ==
    \A t \in Threads :
        (Returning(t, "Start") /\ res[t] = "start_failed" /\ ~was[t] /\ NoForeign) =>
            /\ out[t] # <<>>
            /\ client[inst[t]] = 0
            /\ ~NodeAlive(inst[t])
            /\ IsRunningNow(inst[t]) = "false"

-----------------------------------------------------------------------------
(* C14 *)

\* C14: when the start action succeeded and creating the RPC client failed
\* (the node did not die by itself meanwhile), Start returns with no session
\* held and with the node not running, so that a Start tried again is not
\* refused as already running.
C14_ConnectFailureLeavesReady ==
    \A t \in Threads :
        (Returning(t, "Start") /\ res[t] = "connect_failed" /\ ~ext[t]) =>
            /\ client[inst[t]] = 0
            /\ ~NodeAlive(inst[t])
            /\ IsRunningNow(inst[t]) = "false"

-----------------------------------------------------------------------------
(* C15 *)

\* C15: when StartContext of an instance whose node was not running returns
\* "start cancelled", the instance holds no session and no node of the
\* instance is alive.
C15_CancelledStartLeavesNoNode ==
    \A t \in Threads :
        (Returning(t, "Start") /\ res[t] = "start_cancelled" /\ ~was[t]) =>
            /\ client[inst[t]] = 0
            /\ ~NodeAlive(inst[t])

-----------------------------------------------------------------------------
(* C16 *)

\* The node on the port thread t's script looks at is up and answers RPC
NodeAnswers(t) ==
    /\ proc[RPC_PORT(Args(t))].kind = "bitcoind"
    /\ proc[RPC_PORT(Args(t))].phase = "up"

\* C16: a Start reaches its readiness loop only through the launch step of
\* its own script run, leaves the loop for connectClient only in a state in
\* which the node answers RPC, returns success only from connectClient, and
\* a session is created only by a Start that is in connectClient.
C16_SuccessOnlyAfterProbe ==
    [][/\ \A t \in Threads :
            /\ (pc'[t] = "start_probe" /\ pc[t] # "start_probe") =>
                   (pc[t] = "start_run" /\ ~is_running(Args(t)))
            /\ (pc'[t] = "start_connect" /\ pc[t] # "start_connect") =>
                   (pc[t] = "start_probe" /\ NodeAnswers(t))
            /\ (pc'[t] = "ret" /\ pc[t] # "ret" /\ op'[t] = "Start" /\ res'[t] = "ok") =>
                   pc[t] = "start_connect"
       /\ \A i \in Instances :
            (client'[i] # 0 /\ client'[i] # client[i]) =>
                \E t \in Threads : pc[t] = "start_connect" /\ inst[t] = i /\ pc'[t] = "ret"
      ]_vars

\* A Start has returned success with a session it created
C16_Witness ==
    \E t \in Threads :
        /\ Returning(t, "Start")
        /\ res[t] = "ok"
        /\ out[t] = OutReady
        /\ client[inst[t]] # 0
        /\ handles[client[inst[t]]] = "live"

-----------------------------------------------------------------------------
(* C17 *)

\* C17: while the stop action of a Stop call runs (the graceful request, TERM,
\* KILL), the instance holds no session and no live session is bound to it:
\* the client was shut down and cleared before the script was started.
C17_SessionClosedBeforeStopAction ==
    \A t \in Threads :
        pc[t] \in {"stop_run", "stop_term", "stop_kill"} =>
            /\ client[inst[t]] = 0
            /\ \A h \in Handles :
                   handles[h] = "live" => handleCfg[h] # RPCConfig(inst[t])

\* The stop action of an instance that held a session has sent the graceful
\* request to the node, after the session was shut down
C17_Witness ==
    \E t \in Threads, h \in Handles :
        /\ pc[t] = "stop_term"
        /\ was[t]
        /\ handles[h] = "shut"
        /\ proc[RPC_PORT(Args(t))].phase = "exiting"

-----------------------------------------------------------------------------
(* C18 *)

\* C18: the stop action escalates in order: the graceful request comes
\* first; TERM is sent only from the step after it and only when a process is
\* still on the port; KILL is sent only from the step after TERM, and when it
\* is sent by a Stop of an instance whose node was alive (no foreign process
\* on a port), the process it is addressed to, $PID, has not exited.
C18_EscalationOrder ==
    [][\A t \in Threads :
          /\ (pc'[t] = "stop_term" /\ pc[t] # "stop_term") => pc[t] = "stop_run"
          /\ (pc'[t] = "stop_kill" /\ pc[t] # "stop_kill") =>
                 (pc[t] = "stop_term" /\ is_running(Args(t)))
          /\ (/\ pc[t] = "stop_kill" /\ pc'[t] = "ret"
              /\ is_running(Args(t))
              /\ was[t] /\ NoForeign) => pid[t]
      ]_vars

-----------------------------------------------------------------------------
(* C19 *)

\* The stop action whose output is o asked the node to stop over RPC and was
\* refused: it went past "Stopping bitcoind..." without "Sent stop command"
GracefulRefused(o) == Contains(o, OutStopping) /\ ~Contains(o, OutSentStop)

\* C19: a Stop of an instance whose node was alive, whose escalation failed,
\* does not return success (no foreign process on a port): neither when the
\* graceful request was refused, nor
\* when the last step of the script leaves a process bound to the port
\* although a KILL was sent.
C19_FailedEscalationIsAnError ==
    [][\A t \in Threads :
          (op[t] = "Stop" /\ pc[t] # "ret" /\ pc'[t] = "ret" /\ was[t] /\ NoForeign) =>
              /\ GracefulRefused(out'[t]) => res'[t] # "ok"
              /\ (/\ pc[t] = "stop_kill"
                  /\ is_running(Args(t))
                  /\ proc'[RPC_PORT(Args(t))].kind # "none") => res'[t] # "ok"
      ]_vars

-----------------------------------------------------------------------------
(* C20 *)

\* C20: the step with which a Stop returns success leaves the data directory
\* of the instance, config.DataDir, not existing.
C20_DataDirGoneAfterStop ==
    [][\A t \in Threads :
          (op[t] = "Stop" /\ pc[t] # "ret" /\ pc'[t] = "ret" /\ res'[t] = "ok") =>
              config[inst[t]].DataDir \notin dirs'
      ]_vars

-----------------------------------------------------------------------------
(* C21 *)

\* C21: IsRunning returns an error exactly when the status action could not
\* be executed; when it ran (it exits 0) IsRunning returns true exactly when
\* the output contains "is running", and false for any other output,
\* "bitcoind is not running" included.
C21_IsRunningResult ==
    \A t \in Threads :
        Returning(t, "IsRunning") =>
            res[t] = IF ~ScriptRuns(inst[t]) THEN "status_failed"
                     ELSE IF Contains(out[t], Marker) THEN "true"
                     ELSE "false"

\* An IsRunning whose status action printed "bitcoind is not running" has
\* returned false
C21_Witness ==
    \E t \in Threads :
        /\ Returning(t, "IsRunning")
        /\ out[t] = OutNotRunning
        /\ Contains(out[t], <<"running">>)
        /\ res[t] = "false"

-----------------------------------------------------------------------------
(* C22 *)

\* A step of an IsRunning call by thread t
IsRunningStep(t) == pc'[t] # pc[t] /\ (op[t] = "IsRunning" \/ op'[t] = "IsRunning")

\* C22: no step of an IsRunning call changes a process, a data directory, a
\* session, a configuration or a staged script.
C22_IsRunningChangesNothing ==
    [][\A t \in Threads :
          IsRunningStep(t) =>
              UNCHANGED <<proc, dirs, client, handles, handleCfg, config,
                          scriptPath, scriptTmpDir>>
      ]_vars

\* An IsRunning has returned true on an instance that holds a session, with
\* its node up and the data directory of the node in place
C22_Witness ==
    \E t \in Threads :
        /\ Returning(t, "IsRunning")
        /\ res[t] = "true"
        /\ client[inst[t]] # 0
        /\ Running(inst[t])
        /\ dirs # {}

-----------------------------------------------------------------------------
(* C28 *)

\* C28: Start is idempotent: a Start called on an instance whose node was
\* already running (the node is still up and the session still held when the
\* call returns, and no foreign process is bound to a port) returns success.
C28_StartIdempotent ==
    \A t \in Threads :
        (/\ Returning(t, "Start")
         /\ was[t]
         /\ Running(inst[t])
         /\ client[inst[t]] # 0
         /\ NoForeign) => res[t] = "ok"

-----------------------------------------------------------------------------
(* C30 *)

\* The sessions created for instance i that have not been shut down
LiveSessions(i) == {h \in Handles : handles[h] = "live" /\ handleCfg[h] = RPCConfig(i)}

\* Thread t takes the connectClient step of a Start
ConnectStep(t) == pc[t] = "start_connect" /\ pc'[t] # pc[t]

\* C30: an instance has at most one live session and that session is the one
\* r.client holds (none is leaked); a connectClient that finds a session
\* creates nothing and leaves the session in place; and the handle r.client
\* holds is given up only by a Stop, which shuts it down.
C30_AtMostOneSession ==
    [][/\ \A i \in Instances :
             /\ Cardinality(LiveSessions(i)) <= 1
             /\ LiveSessions(i) \subseteq {client[i]}
             /\ (client[i] # 0 /\ client'[i] # client[i]) =>
                    /\ \E t \in Threads : StopStep(t) /\ inst'[t] = i
                    /\ handles'[client[i]] = "shut"
       /\ \A t \in Threads :
             (ConnectStep(t) /\ client[inst[t]] # 0) =>
                 UNCHANGED <<client, handles, handleCfg>>]_vars

\* A Start whose start action succeeded is at connectClient while the
\* instance still holds the live session of an earlier Start (the node of
\* that Start died on its own)
C30_Witness ==
    \E t \in Threads :
        /\ pc[t] = "start_connect"
        /\ client[inst[t]] # 0
        /\ handles[client[inst[t]]] = "live"
        /\ LiveSessions(inst[t]) = {client[inst[t]]}

-----------------------------------------------------------------------------
(* C24 *)

\* The value New was given for instance i: the default for New(nil)
Given(i) == IF ctor[i].how = "nil" THEN DefaultConfig ELSE ctor[i].arg

\* C24: no step of any operation (Start, Stop, IsRunning, Cleanup, an RPC
\* helper) changes the stored configuration of an instance: the struct
\* r.config points to holds, field for field, the value given at
\* construction, and RPCConfig carries its Host, User and Pass.
C24_ConfigNeverChanges ==
    [][/\ UNCHANGED <<config, rcfg>>
       /\ \A i \in Instances :
             /\ Deep(heap', rcfg'[i]) = Given(i)
             /\ config'[i] = Given(i)
             /\ RPCConfig(i).Host = Given(i).Host
             /\ RPCConfig(i).User = Given(i).User
             /\ RPCConfig(i).Pass = Given(i).Pass]_vars

\* An instance constructed with a configuration of its own has been started,
\* used by an RPC helper, stopped and cleaned up, and its configuration
\* is the one it was given
C24_Witness ==
    \E t, u \in Threads :
        /\ Returning(t, "Cleanup")
        /\ inst[t] = 2
        /\ dirs = {}
        /\ pc[u] = "rpc_ret"
        /\ inst[u] = 2
        /\ res[u] = "requested_on_shut"
        /\ config[2] = ConfigB

-----------------------------------------------------------------------------
(* C26 *)

\* Thread t takes the step of Cleanup that does its work
CleanupStep(t) == pc[t] = "cleanup_run" /\ pc'[t] # pc[t]

-----------------------------------------------------------------------------
(* C23 *)

\* New has stored a configuration for instance i
HasConfig(i) == rcfg[i] # 0

\* C23: whatever the caller does to the Config it passed to New or to a
\* Config it got from Config() (any string field, an element of ExtraArgs),
\* the struct r.config points to holds the value given to New, which is what
\* Config() copies and RPCConfig() reads; the caller holds neither that
\* struct nor the array of its ExtraArgs.
C23_ConfigNotAliased ==
    \A i \in Instances :
        HasConfig(i) =>
            /\ Deep(heap, rcfg[i]) = Given(i)
            /\ config[i] = Given(i)
            /\ RPCConfig(i).Host = Given(i).Host
            /\ RPCConfig(i).User = Given(i).User
            /\ RPCConfig(i).Pass = Given(i).Pass
            /\ \A x \in CallerVars :
                  held[x] # 0 =>
                      /\ held[x] # rcfg[i]
                      /\ heap[held[x]].ExtraArgs # 0 =>
                             heap[held[x]].ExtraArgs # heap[rcfg[i]].ExtraArgs

\* The instance was constructed from customCfg; afterwards the caller
\* changed an element of ExtraArgs of the Config it had passed, and the Host
\* and the element of ExtraArgs of a Config it got from Config(); the
\* instance holds customCfg as it was passed
C23_Witness ==
    \E i \in Instances :
        /\ ctor[i].state = "ready"
        /\ ctor[i].how = "given"
        /\ Deep(heap, rcfg[i]) = CustomConfig
        /\ held["cfg"] # 0
        /\ Elems(heap, held["cfg"]) = <<"modified">>
        /\ heap[held["cfg"]].User = "modified"
        /\ held["got"] # 0
        /\ heap[held["got"]].Host = <<"modified">>
        /\ heap[held["got"]].DataDir = CustomConfig.DataDir
        /\ Elems(heap, held["got"]) = <<"modified">>

-----------------------------------------------------------------------------
(* C25 *)

\* The actions of the controller script the lifecycle methods run
ControllerActions == {"start", "stop", "status"}

\* C25: an instance New(nil) returned holds the default configuration in
\* every field, and next to an instance New(DefaultConfig()) returned it
\* holds the same configuration, passes the same arguments to every
\* controller action and connects with the same RPCConfig.
C25_NilIsDefault ==
    \A i \in Instances :
        (ctor[i].state = "ready" /\ ctor[i].how = "nil") =>
            /\ Deep(heap, rcfg[i]) = DefaultConfig
            /\ config[i] = DefaultConfig
            /\ \A j \in Instances :
                  (ctor[j].state = "ready" /\ ctor[j].how = "given"
                     /\ ctor[j].arg = DefaultConfig) =>
                      /\ Deep(heap, rcfg[j]) = Deep(heap, rcfg[i])
                      /\ RPCConfig(j) = RPCConfig(i)
                      /\ \A act \in ControllerActions :
                            ScriptArgs(j, act) = ScriptArgs(i, act)

\* One instance was constructed by New(nil) and one by New(DefaultConfig())
C25_Witness ==
    \E i, j \in Instances :
        /\ ctor[i].state = "ready"
        /\ ctor[i].how = "nil"
        /\ ctor[j].state = "ready"
        /\ ctor[j].how = "given"
        /\ ctor[j].arg = DefaultConfig
        /\ rcfg[i] # rcfg[j]

-----------------------------------------------------------------------------
(* C27 *)

\* C27: New ends with an instance that holds a configuration and whose
\* script is staged in its temp directory, or with an error and no instance;
\* before and at the check for bitcoind nothing is staged, and after any
\* failure (bitcoind not found, no temp directory, the script not written)
\* no temp directory is left.
C27_NewReadyOrNothing ==
    \A i \in Instances :
        /\ ctor[i].state = "ready" =>
              /\ rcfg[i] # 0
              /\ scriptPath[i] = "staged"
              /\ scriptTmpDir[i] = "tmp"
              /\ tmpfs[i] = "script"
        /\ ctor[i].state \in {"no_bitcoind", "mkdir_failed", "write_failed"} =>
              /\ rcfg[i] = 0
              /\ scriptPath[i] = ""
              /\ tmpfs[i] = "-"
        /\ ctor[i].state \in {"none", "initialize", "mkdir"} => tmpfs[i] = "-"

\* One New failed at writing the script and left nothing, another New
\* found no bitcoind
C27_Witness ==
    \E i, j \in Instances :
        /\ ctor[i].state = "write_failed"
        /\ tmpfs[i] = "-"
        /\ ctor[j].state = "no_bitcoind"
        /\ tmpfs[j] = "-"

-----------------------------------------------------------------------------
(* C29 *)

\* C29: a helper called with an empty address, or (Warp, SendToAddress) with
\* a number of blocks or an amount that is not positive, ends with an error
\* and has sent no request.
C29_TrivialInputsRejected ==
    \A t \in Threads :
        (/\ pc[t] = "helper_ret"
         /\ \/ arg[t].address = ""
            \/ op[t] \in {"Warp", "SendToAddress"} /\ arg[t].n <= 0) =>
            res[t] # "requested"

-----------------------------------------------------------------------------
(* C37 *)

\* Thread t takes a step of a Start that is refused because a process is
\* bound to the port: the call itself, or the start action's is_running check
RefusedStartStep(t) ==
    \/ pc[t] = "idle" /\ op'[t] = "Start"
    \/ pc[t] = "start_run" /\ pc'[t] = "ret" /\ out'[t] = OutAlreadyRunning

\* C37: no step of a Start that fails because the port is in use changes
\* the process on any port, a data directory or a session of any instance.
C37_RefusedStartChangesNothing ==
    [][\A t \in Threads : RefusedStartStep(t) =>
          UNCHANGED <<proc, dirs, client, handles, handleCfg>>]_vars

\* A Start has been refused as already running while the node of the
\* instance is up, its data directory exists and its session is held
C37_Witness ==
    \E t \in Threads :
        /\ Returning(t, "Start")
        /\ res[t] = "start_failed"
        /\ out[t] = OutAlreadyRunning
        /\ Running(inst[t])
        /\ client[inst[t]] # 0
        /\ handles[client[inst[t]]] = "live"
        /\ "bitcoind_regtest" \in dirs

-----------------------------------------------------------------------------
(* C38 *)

\* The process bound to the port the script of thread t looks at was
\* launched by a start action
LaunchedOnPort(t) == proc[RPC_PORT(Args(t))].kind = "bitcoind"

\* C38: a status action that makes IsRunning return true has found a node a
\* start action launched, and a stop action sends TERM (and KILL after it)
\* only to such a node, never to a process the library did not start.
C38_OnlyOwnProcesses ==
    [][\A t \in Threads :
          /\ (pc[t] = "status_run" /\ res'[t] = "true") => LaunchedOnPort(t)
          /\ (pc[t] = "stop_term" /\ pc'[t] = "stop_kill") => LaunchedOnPort(t)
          /\ (pc[t] = "stop_kill" /\ proc' # proc) => LaunchedOnPort(t)]_vars

-----------------------------------------------------------------------------
(* C35 *)

\* Thread t calls Start, Stop or IsRunning of an instance
CallStep(t) ==
    pc[t] = "idle" /\ pc'[t] # "idle" /\ op'[t] \in {"Start", "Stop", "IsRunning"}

\* C35: once Cleanup has cleared the script path of an instance, no step
\* stages a script for it again, and every Start, Stop and IsRunning called
\* on it returns an error at once, with no process launched or signalled and
\* no data directory touched.
C35_DisposedIsPermanent ==
    [][/\ \A i \in Instances :
             scriptPath[i] = "" => (scriptPath'[i] = "" /\ tmpfs'[i] = "-")
       /\ \A t \in Threads :
             (CallStep(t) /\ scriptPath[inst'[t]] = "") =>
                 /\ pc'[t] = "ret"
                 /\ res'[t] \in {"start_failed", "stop_failed", "status_failed"}
                 /\ out'[t] = OutNoScript
                 /\ UNCHANGED <<proc, dirs>>]_vars

\* After a Cleanup of both instances a Start of one and a Stop of the other
\* have returned errors, while the node one of them had started is still up
C35_Witness ==
    \E t, u \in Threads :
        /\ Returning(t, "Start")
        /\ res[t] = "start_failed"
        /\ out[t] = OutNoScript
        /\ tmpfs[inst[t]] = "-"
        /\ Returning(u, "Stop")
        /\ res[u] = "stop_failed"
        /\ tmpfs[inst[u]] = "-"
        /\ \E i \in Instances : Running(i)

-----------------------------------------------------------------------------
(* C36 *)

\* C36: when a Stop called on an instance whose node was alive returns (no
\* foreign process is bound to a port), no node of the instance is alive,
\* whatever was called on the instance before.
C36_StopTerminatesOwnNode ==
    \A t \in Threads :
        (Returning(t, "Stop") /\ was[t] /\ NoForeign) => ~NodeAlive(inst[t])

-----------------------------------------------------------------------------
(* C33 *)

\* Host ends with a port segment: a ":" followed by a port number
HasPortSegment(host) ==
    /\ Len(host) >= 3
    /\ host[Len(host) - 1] = ":"
    /\ host[Len(host)] \in {"18443", "18444", "19100"}

\* C33: the port a Start, Stop or IsRunning passes to its controller action
\* is the port segment of the configured Host when Host has one, and 18443
\* when it has none (so that the three derive the same port).
C33_PortIsHostPort ==
    \A t \in Threads :
        (op[t] \in {"Start", "Stop", "IsRunning"}) =>
            LET host == config[inst[t]].Host
            IN  Args(t).port = IF HasPortSegment(host)
                               THEN <<host[Len(host)]>>
                               ELSE <<"18443">>

-----------------------------------------------------------------------------
(* C32: the readiness loop of start_bitcoind, turn by turn *)

\* One turn of the loop (lines 53-59): bitcoin-cli getblockcount is run; an
\* answer ends the script with exit 0, no answer is followed by sleep 0.5
\* and the next turn
ProbeTurn(t) ==
    /\ pc[t] = "start_probe"
    /\ probes[t] < MaxProbes
    /\ probes' = [probes EXCEPT ![t] = probes[t] + 1]
    /\ IF CliAnswers(Args(t))
       THEN /\ pc' = [pc EXCEPT ![t] = "start_connect"]
            /\ out' = [out EXCEPT ![t] = OutReady]
       ELSE UNCHANGED <<pc, out>>
    /\ UNCHANGED <<config, scriptPath, scriptTmpDir, mu, client, handles, handleCfg,
                   proc, dirs, op, inst, res, pid, ext, was, snap, arg, heap, held,
                   rcfg, ctor, tmpfs, clientMu, wallets, walletName>>

\* A loop that begins its twenty turns again when they are used up
ProbeGiveUp_Retries(t) ==
    /\ pc[t] = "start_probe"
    /\ probes[t] = MaxProbes
    /\ probes' = [probes EXCEPT ![t] = 0]
    /\ UNCHANGED <<config, scriptPath, scriptTmpDir, mu, client, handles, handleCfg,
                   proc, dirs, pc, op, inst, res, out, pid, ext, was, snap, arg, heap,
                   held, rcfg, ctor, tmpfs, clientMu, wallets, walletName>>

\* After the last turn (lines 61-62): "ERROR: bitcoind failed to start
\* properly", exit 1
ProbeGiveUp(t) ==
    /\ pc[t] = "start_probe"
    /\ probes[t] = MaxProbes
    /\ Finish(t, "start_failed", OutStartFailed)
    /\ UNCHANGED <<config, scriptPath, scriptTmpDir, mu, client, handles, handleCfg,
                   proc, dirs, op, inst, pid, ext, was, snap, arg, heap, held, rcfg,
                   ctor, tmpfs, probes, clientMu, wallets, walletName>>

\* The steps of a Start call that is under way on thread t
StartSteps(t) ==
    \/ StartLaunch(t)
    \/ ProbeTurn(t)
    \/ ProbeGiveUp(t)
    \/ StartConnect(t)
    \/ Return(t)

NextProbe ==
    \/ \E t \in Threads, i \in Instances : StartCall(t, i)
    \/ \E t \in Threads : StartLaunch(t)
    \/ \E t \in Threads : ProbeTurn(t)
    \/ \E t \in Threads : ProbeGiveUp(t)
    \/ \E t \in Threads : StartConnect(t)
    \/ \E t \in Threads : StartCancel(t)
    \/ \E t \in Threads : Return(t)
    \/ \E p \in Ports : NodeReady(p)

\* Starts only, by both callers, with a daemon that may fail to launch and
\* may never become ready.  The bash process of the script and the goroutine
\* of the call keep running: a step of a Start that stays possible is taken.
\* Nothing is assumed of the node, of the callers or of the context.
SpecProbe == Init /\ [][NextProbe]_vars /\ \A t \in Threads : WF_vars(StartSteps(t))

\* C32: the start action makes at most 20 readiness probes; the script fails
\* as not started only after 20 probes none of which was answered; and every
\* Start that is called returns.
C32_ProbesBoundedStartReturns ==
    /\ [](\A t \in Threads : probes[t] <= 20)
    /\ [][\A t \in Threads :
            /\ (pc[t] = "start_probe" /\ out'[t] = OutStartFailed) =>
                  (probes[t] = 20 /\ res'[t] = "start_failed" /\ pc'[t] = "ret")
            /\ (pc[t] = "start_probe" /\ probes'[t] # probes[t]) =>
                  (probes'[t] = probes[t] + 1 /\ probes[t] < 20)]_vars
    /\ \A t \in Threads : (op[t] = "Start") ~> (op[t] # "Start")

\* A Start returns the script's failure after twenty unanswered probes while
\* the daemon it launched is still booting
C32_Witness ==
    \E t \in Threads :
        /\ Returning(t, "Start")
        /\ res[t] = "start_failed"
        /\ out[t] = OutStartFailed
        /\ probes[t] = 20
        /\ proc[RPC_PORT(Args(t))].phase = "booting"

-----------------------------------------------------------------------------
(* C34: the two locks of an instance, with the calls that wait for them.    *)
(* The bodies of the methods are reduced to their outcomes; what is kept is *)
(* every Lock, Unlock, RLock and RUnlock and every return.                  *)

LifecycleOps == {"Start", "Stop", "IsRunning", "Cleanup"}

\* A goroutine calls StartContext, Stop, Cleanup or IsRunning of instance i
\* and reaches r.mu.Lock()
LockCall(t, i, o) ==
    /\ pc[t] = "idle"
    /\ pc' = [pc EXCEPT ![t] = "mu_wait"]
    /\ op' = [op EXCEPT ![t] = o]
    /\ inst' = [inst EXCEPT ![t] = i]
    /\ UNCHANGED <<config, scriptPath, scriptTmpDir, mu, client, handles, handleCfg,
                   proc, dirs, res, out, pid, ext, was, snap, arg, heap, held, rcfg,
                   ctor, tmpfs, probes, clientMu, wallets, walletName>>

\* r.mu.Lock() returns
LockAcquire(t) ==
    /\ pc[t] = "mu_wait"
    /\ CanLock(inst[t])
    /\ mu' = [mu EXCEPT ![inst[t]] = t]
    /\ pc' = [pc EXCEPT ![t] = "mu_held"]
    /\ UNCHANGED <<config, scriptPath, scriptTmpDir, client, handles, handleCfg, proc,
                   dirs, op, inst, res, out, pid, ext, was, snap, arg, heap, held,
                   rcfg, ctor, tmpfs, probes, clientMu, wallets, walletName>>

\* The method up to its first return or to its r.clientMu.Lock(): StartContext
\* returns the error of ctx or of the script, or calls connectClient; Stop
\* goes to its clientMu.Lock(); IsRunning and Cleanup return
LockedBody(t) ==
    /\ pc[t] = "mu_held"
    /\ CASE op[t] = "Start" ->
              \/ \E r \in {"start_failed", "start_cancelled"} : Finish(t, r, <<>>)
              \/ /\ pc' = [pc EXCEPT ![t] = "clientMu_wait"]
                 /\ UNCHANGED <<res, out>>
         [] op[t] = "Stop" ->
              /\ pc' = [pc EXCEPT ![t] = "clientMu_wait"]
              /\ UNCHANGED <<res, out>>
         [] op[t] = "IsRunning" ->
              \E r \in {"true", "false", "status_failed"} : Finish(t, r, <<>>)
         [] OTHER ->
              \E r \in {"ok", "cleanup_failed"} : Finish(t, r, <<>>)
    /\ UNCHANGED <<config, scriptPath, scriptTmpDir, mu, client, handles, handleCfg,
                   proc, dirs, op, inst, pid, ext, was, snap, arg, heap, held, rcfg,
                   ctor, tmpfs, probes, clientMu, wallets, walletName>>

\* r.clientMu.Lock() returns: no writer and no reader holds the lock
ClientLock(t) ==
    /\ pc[t] = "clientMu_wait"
    /\ clientMu[inst[t]] = [w |-> 0, r |-> {}]
    /\ clientMu' = [clientMu EXCEPT ![inst[t]].w = t]
    /\ pc' = [pc EXCEPT ![t] = "clientMu_held"]
    /\ UNCHANGED <<config, scriptPath, scriptTmpDir, mu, client, handles, handleCfg,
                   proc, dirs, op, inst, res, out, pid, ext, was, snap, arg, heap,
                   held, rcfg, ctor, tmpfs, probes, wallets, walletName>>

\* A connectClient and a Stop that go on without r.clientMu.Unlock()
ClientUnlock_Keeps(t) ==
    /\ pc[t] = "clientMu_held"
    /\ IF op[t] = "Start"
       THEN \E r \in {"ok", "connect_failed"} : Finish(t, r, <<>>)
       ELSE /\ pc' = [pc EXCEPT ![t] = "stop_run"]
            /\ UNCHANGED <<res, out>>
    /\ UNCHANGED <<config, scriptPath, scriptTmpDir, mu, client, handles, handleCfg,
                   proc, dirs, op, inst, pid, ext, was, snap, arg, heap, held, rcfg,
                   ctor, tmpfs, probes, clientMu, wallets, walletName>>

\* r.clientMu.Unlock(): deferred in connectClient, whose result StartContext
\* returns; in Stop after the client is shut down, before the script runs
ClientUnlock(t) ==
    /\ pc[t] = "clientMu_held"
    /\ clientMu' = [clientMu EXCEPT ![inst[t]].w = 0]
    /\ IF op[t] = "Start"
       THEN \E r \in {"ok", "connect_failed"} : Finish(t, r, <<>>)
       ELSE /\ pc' = [pc EXCEPT ![t] = "stop_run"]
            /\ UNCHANGED <<res, out>>
    /\ UNCHANGED <<config, scriptPath, scriptTmpDir, mu, client, handles, handleCfg,
                   proc, dirs, op, inst, pid, ext, was, snap, arg, heap, held, rcfg,
                   ctor, tmpfs, probes, wallets, walletName>>

\* Stop runs the script and returns nil or its error
StopScript(t) ==
    /\ pc[t] = "stop_run"
    /\ \E r \in {"ok", "stop_failed"} : Finish(t, r, <<>>)
    /\ UNCHANGED <<config, scriptPath, scriptTmpDir, mu, client, handles, handleCfg,
                   proc, dirs, op, inst, pid, ext, was, snap, arg, heap, held, rcfg,
                   ctor, tmpfs, probes, clientMu, wallets, walletName>>

\* A goroutine calls Client() or an RPC helper of instance i and reaches
\* r.clientMu.RLock()
RLockCall(t, i) ==
    /\ pc[t] = "idle"
    /\ pc' = [pc EXCEPT ![t] = "rlock_wait"]
    /\ op' = [op EXCEPT ![t] = "GetBlockCount"]
    /\ inst' = [inst EXCEPT ![t] = i]
    /\ UNCHANGED <<config, scriptPath, scriptTmpDir, mu, client, handles, handleCfg,
                   proc, dirs, res, out, pid, ext, was, snap, arg, heap, held, rcfg,
                   ctor, tmpfs, probes, clientMu, wallets, walletName>>

\* r.clientMu.RLock() returns: no writer holds the lock and none waits for it
\* (sync.RWMutex blocks new readers while a Lock call is pending)
RLock(t) ==
    /\ pc[t] = "rlock_wait"
    /\ clientMu[inst[t]].w = 0
    /\ \A u \in Threads : ~(pc[u] = "clientMu_wait" /\ inst[u] = inst[t])
    /\ clientMu' = [clientMu EXCEPT ![inst[t]].r = @ \cup {t}]
    /\ pc' = [pc EXCEPT ![t] = "rlock_held"]
    /\ UNCHANGED <<config, scriptPath, scriptTmpDir, mu, client, handles, handleCfg,
                   proc, dirs, op, inst, res, out, pid, ext, was, snap, arg, heap,
                   held, rcfg, ctor, tmpfs, probes, wallets, walletName>>

\* client := r.client; r.clientMu.RUnlock(): the helper goes on without a lock
RUnlock(t) ==
    /\ pc[t] = "rlock_held"
    /\ clientMu' = [clientMu EXCEPT ![inst[t]].r = @ \ {t}]
    /\ pc' = [pc EXCEPT ![t] = "idle"]
    /\ op' = [op EXCEPT ![t] = "-"]
    /\ inst' = [inst EXCEPT ![t] = 0]
    /\ UNCHANGED <<config, scriptPath, scriptTmpDir, mu, client, handles, handleCfg,
                   proc, dirs, res, out, pid, ext, was, snap, arg, heap, held, rcfg,
                   ctor, tmpfs, probes, wallets, walletName>>

\* The steps of thread t that wait for nothing
Running_Steps(t) ==
    \/ LockedBody(t)
    \/ ClientUnlock(t)
    \/ StopScript(t)
    \/ RUnlock(t)
    \/ Return(t)

NextLocks ==
    \/ \E t \in Threads, i \in Instances, o \in LifecycleOps : LockCall(t, i, o)
    \/ \E t \in Threads : LockAcquire(t)
    \/ \E t \in Threads : LockedBody(t)
    \/ \E t \in Threads : ClientLock(t)
    \/ \E t \in Threads : ClientUnlock(t)
    \/ \E t \in Threads : StopScript(t)
    \/ \E t \in Threads, i \in Instances : RLockCall(t, i)
    \/ \E t \in Threads : RLock(t)
    \/ \E t \in Threads : RUnlock(t)
    \/ \E t \in Threads : Return(t)

\* Fair scheduling: a goroutine that can run does run (weak fairness of the
\* steps that wait for nothing), and a goroutine blocked on a lock that is
\* free again and again gets it (strong fairness of the acquisitions:
\* sync.Mutex hands a starving waiter the lock, sync.RWMutex wakes the
\* readers a writer's Unlock finds waiting).  Callers may stop calling.
SpecLocks ==
    /\ Init
    /\ [][NextLocks]_vars
    /\ \A t \in Threads :
          /\ WF_vars(Running_Steps(t))
          /\ SF_vars(LockAcquire(t))
          /\ SF_vars(ClientLock(t))
          /\ SF_vars(RLock(t))

\* The locks thread t holds
HeldBy(t) ==
    {<<"mu", i>> : i \in {k \in Instances : mu[k] = t}}
        \cup {<<"clientMu", i>> : i \in {k \in Instances : clientMu[k].w = t}}
        \cup {<<"clientMu.R", i>> : i \in {k \in Instances : t \in clientMu[k].r}}

\* C34: a thread outside every call holds no lock (each return path of
\* Start, Stop, IsRunning and Cleanup has released the lifecycle lock and the
\* session lock); the session lock is write-locked only by the holder of the
\* same instance's lifecycle lock and read-locked only by a thread that holds
\* nothing else, and no thread waits for a lifecycle lock while it holds a
\* session lock; and under fair scheduling every call that waits for a lock
\* acquires it.
C34_LocksReleasedAndAcquired ==
    /\ [](\A t \in Threads : pc[t] = "idle" => HeldBy(t) = {})
    /\ [](\A t \in Threads, i \in Instances :
            /\ clientMu[i].w = t => mu[i] = t
            /\ t \in clientMu[i].r => HeldBy(t) = {<<"clientMu.R", i>>}
            /\ pc[t] = "mu_wait" => HeldBy(t) = {})
    /\ \A t \in Threads :
          /\ (pc[t] = "mu_wait") ~> (pc[t] = "mu_held")
          /\ (pc[t] = "clientMu_wait") ~> (pc[t] = "clientMu_held")
          /\ (pc[t] = "rlock_wait") ~> (pc[t] = "rlock_held")

\* A call waits for the lifecycle lock of an instance whose holder, a Start
\* inside connectClient, has the session lock
C34_Witness ==
    \E t, u \in Threads :
        /\ pc[t] = "mu_wait"
        /\ mu[inst[t]] = u
        /\ clientMu[inst[t]].w = u
        /\ op[u] = "Start"

-----------------------------------------------------------------------------
(* C39: EnsureWallet, with the wallets of the node.  An error is the text   *)
(* of err.Error(), and <<>> stands for nil.                                 *)

ErrNotConnected == <<"RPC", " ", "client", " ", "not", " ", "connected">>

\* r.LoadWallet(name) of instance i: nil after a load, else the error.  The
\* node refuses a wallet it has loaded and a wallet it does not find, and
\* names the wallet in its text.
LoadWallet(i, name) ==
    IF client[i] = 0 THEN ErrNotConnected
    ELSE CASE wallets[name] = "unloaded" -> <<>>
           [] wallets[name] = "loaded" ->
                <<"failed", " ", "to", " ", "load", " ", "wallet:", " ", "Wallet", " ">>
                    \o name \o <<" ", "is", " ", "already", " ", "loaded">>
           [] OTHER ->
                <<"failed", " ", "to", " ", "load", " ", "wallet:", " ", "Failed", " ",
                  "to", " ", "load", " ", "database", " ", "path", " ">>
                    \o name \o <<" ", "Path", " ", "does", " ", "not", " ", "exist">>

\* r.CreateWallet(name) of instance i: nil after the wallet is created (and
\* loaded), else the error.  The node refuses a name that is on its disk.
CreateWallet(i, name) ==
    IF client[i] = 0 THEN ErrNotConnected
    ELSE IF wallets[name] = "absent" THEN <<>>
    ELSE <<"failed", " ", "to", " ", "create", " ", "wallet:", " ", "Failed", " ",
           "to", " ", "create", " ", "database", " ", "path", " ">>
             \o name \o <<" ", "Database", " ", "already", " ", "exists">>

\* A goroutine calls EnsureWallet(name) of instance i
EnsureWalletCall(t, i, name) ==
    /\ pc[t] = "idle"
    /\ op' = [op EXCEPT ![t] = "EnsureWallet"]
    /\ inst' = [inst EXCEPT ![t] = i]
    /\ walletName' = [walletName EXCEPT ![t] = name]
    /\ pc' = [pc EXCEPT ![t] = "ensure_load"]
    /\ UNCHANGED <<config, scriptPath, scriptTmpDir, mu, client, handles, handleCfg,
                   proc, dirs, res, out, pid, ext, was, snap, arg, heap, held, rcfg,
                   ctor, tmpfs, probes, clientMu, wallets>>

\* The first r.LoadWallet and what EnsureWallet makes of its error: nil, or a
\* text with "already loaded" or "already exists", returns nil
EnsureLoad(t) ==
    /\ pc[t] = "ensure_load"
    /\ LET err == LoadWallet(inst[t], walletName[t])
       IN  /\ wallets' = IF err = <<>>
                         THEN [wallets EXCEPT ![walletName[t]] = "loaded"]
                         ELSE wallets
           /\ IF \/ err = <<>>
                 \/ Contains(err, <<"already", " ", "loaded">>)
                 \/ Contains(err, <<"already", " ", "exists">>)
              THEN /\ pc' = [pc EXCEPT ![t] = "helper_ret"]
                   /\ res' = [res EXCEPT ![t] = "ok"]
              ELSE /\ pc' = [pc EXCEPT ![t] = "ensure_create"]
                   /\ UNCHANGED res
    /\ UNCHANGED <<config, scriptPath, scriptTmpDir, mu, client, handles, handleCfg,
                   proc, dirs, op, inst, out, pid, ext, was, snap, arg, heap, held,
                   rcfg, ctor, tmpfs, probes, clientMu, walletName>>

\* r.CreateWallet after a load that failed: nil returns nil, "already exists"
\* leads to the second load, any other error is returned
EnsureCreate(t) ==
    /\ pc[t] = "ensure_create"
    /\ LET err == CreateWallet(inst[t], walletName[t])
       IN  /\ wallets' = IF err = <<>>
                         THEN [wallets EXCEPT ![walletName[t]] = "loaded"]
                         ELSE wallets
           /\ IF err = <<>>
              THEN /\ pc' = [pc EXCEPT ![t] = "helper_ret"]
                   /\ res' = [res EXCEPT ![t] = "ok"]
              ELSE IF Contains(err, <<"already", " ", "exists">>)
              THEN /\ pc' = [pc EXCEPT ![t] = "ensure_reload"]
                   /\ UNCHANGED res
              ELSE /\ pc' = [pc EXCEPT ![t] = "helper_ret"]
                   /\ res' = [res EXCEPT ![t] = "create_failed"]
    /\ UNCHANGED <<config, scriptPath, scriptTmpDir, mu, client, handles, handleCfg,
                   proc, dirs, op, inst, out, pid, ext, was, snap, arg, heap, held,
                   rcfg, ctor, tmpfs, probes, clientMu, walletName>>

\* The second r.LoadWallet: any error is returned as "wallet exists but
\* failed to load"
EnsureReload(t) ==
    /\ pc[t] = "ensure_reload"
    /\ LET err == LoadWallet(inst[t], walletName[t])
       IN  /\ wallets' = IF err = <<>>
                         THEN [wallets EXCEPT ![walletName[t]] = "loaded"]
                         ELSE wallets
           /\ pc' = [pc EXCEPT ![t] = "helper_ret"]
           /\ res' = [res EXCEPT ![t] = IF err = <<>> THEN "ok" ELSE "reload_failed"]
    /\ UNCHANGED <<config, scriptPath, scriptTmpDir, mu, client, handles, handleCfg,
                   proc, dirs, op, inst, out, pid, ext, was, snap, arg, heap, held,
                   rcfg, ctor, tmpfs, probes, clientMu, walletName>>

\* r.UnloadWallet(name) of instance i: the node unloads a wallet it has loaded
UnloadWallet(t, i, name) ==
    /\ pc[t] = "idle"
    /\ op' = [op EXCEPT ![t] = "UnloadWallet"]
    /\ inst' = [inst EXCEPT ![t] = i]
    /\ walletName' = [walletName EXCEPT ![t] = name]
    /\ pc' = [pc EXCEPT ![t] = "helper_ret"]
    /\ IF client[i] # 0 /\ wallets[name] = "loaded"
       THEN /\ wallets' = [wallets EXCEPT ![name] = "unloaded"]
            /\ res' = [res EXCEPT ![t] = "ok"]
       ELSE /\ res' = [res EXCEPT ![t] = "unload_failed"]
            /\ UNCHANGED wallets
    /\ UNCHANGED <<config, scriptPath, scriptTmpDir, mu, client, handles, handleCfg,
                   proc, dirs, out, pid, ext, was, snap, arg, heap, held, rcfg, ctor,
                   tmpfs, probes, clientMu>>

NextWallet ==
    \/ \E t \in Threads, i \in Instances, name \in WalletNames :
          EnsureWalletCall(t, i, name)
    \/ \E t \in Threads : EnsureLoad(t)
    \/ \E t \in Threads : EnsureCreate(t)
    \/ \E t \in Threads : EnsureReload(t)
    \/ \E t \in Threads, i \in Instances, name \in WalletNames : UnloadWallet(t, i, name)
    \/ \E t \in Threads : HelperReturn(t)

\* The first instance has a live session with a node that is up; the callers
\* ensure and unload wallets, one after another and at the same time
SpecWallet == InitConnected /\ [][NextWallet]_vars

\* Thread t's EnsureWallet, called on an instance with a session, returns
EnsureReturns(t) ==
    /\ pc[t] # "helper_ret"
    /\ pc'[t] = "helper_ret"
    /\ op'[t] = "EnsureWallet"
    /\ client[inst'[t]] # 0

\* C39: an EnsureWallet called on an instance with a live session returns nil,
\* and when it returns nil the named wallet is loaded in the node.
C39_EnsureWalletLoads ==
    [][\A t \in Threads :
          EnsureReturns(t) => (res'[t] = "ok" /\ wallets'[walletName'[t]] = "loaded")]_vars

-----------------------------------------------------------------------------
(* C31: recovery by Stop and Start after Starts that failed.  One caller    *)
(* makes Starts that may fail in every way the code allows, on either       *)
(* instance; the other caller stops and starts the first instance, and for  *)
(* its calls the daemon launches, becomes ready and the session is made.    *)

\* The caller whose Starts may fail, and the caller that recovers
Failing == 2
Recovering == 1

\* The instance that is recovered has either configuration
InitRecover ==
    /\ config \in {<<DefaultConfig, ConfigB>>, <<ConfigB, DefaultConfig>>}
    /\ scriptPath = [i \in Instances |-> "staged"]
    /\ scriptTmpDir = [i \in Instances |-> "tmp"]
    /\ mu = [i \in Instances |-> 0]
    /\ client = [i \in Instances |-> 0]
    /\ handles = [h \in Handles |-> "free"]
    /\ handleCfg = [h \in Handles |-> 0]
    /\ proc = [p \in Ports |-> NoProc]
    /\ dirs = {}
    /\ pc = [t \in Threads |-> "idle"]
    /\ op = [t \in Threads |-> "-"]
    /\ inst = [t \in Threads |-> 0]
    /\ was = [t \in Threads |-> FALSE]
    /\ res = [t \in Threads |-> "none"]
    /\ out = [t \in Threads |-> <<>>]
    /\ pid = [t \in Threads |-> FALSE]
    /\ ext = [t \in Threads |-> FALSE]
    /\ snap = [t \in Threads |-> 0]
    /\ arg = [t \in Threads |-> NoArg]
    /\ heap = HeapOf(config).heap
    /\ held = [x \in CallerVars |-> 0]
    /\ rcfg = HeapOf(config).refs
    /\ ctor = [i \in Instances |-> [state |-> "ready", how |-> "given", arg |-> config[i]]]
    /\ tmpfs = [i \in Instances |-> "script"]
    /\ probes = [t \in Threads |-> 0]
    /\ clientMu = [i \in Instances |-> [w |-> 0, r |-> {}]]
    /\ wallets = [w \in WalletNames |-> "absent"]
    /\ walletName = [t \in Threads |-> <<>>]

\* The start action in which, when the port is free, bitcoind is launched
LaunchSucceeds(t) ==
    /\ StartLaunch(t)
    /\ pc'[t] = "start_probe" => proc'[RPC_PORT(Args(t))].kind = "bitcoind"

\* The connectClient in which rpcclient.New returns a client
ConnectSucceeds(t) ==
    /\ StartConnect(t)
    /\ res'[t] = "ok"

\* A node that was asked to stop exits
NodeExits(p) ==
    /\ proc[p].phase = "exiting"
    /\ ProcExit(p)

\* The steps of a call of the recovering caller that is under way
RecoverSteps ==
    \/ StopGraceful(Recovering)
    \/ StopTerm(Recovering)
    \/ StopKill(Recovering)
    \/ LaunchSucceeds(Recovering)
    \/ StartReady(Recovering)
    \/ ConnectSucceeds(Recovering)
    \/ Return(Recovering)

NextRecover ==
    \/ \E i \in Instances : StartCall(Failing, i)
    \/ StartLaunch(Failing)
    \/ StartReady(Failing)
    \/ StartTimeout(Failing)
    \/ StartConnect(Failing)
    \/ StartCancel(Failing)
    \/ Return(Failing)
    \/ StopCall(Recovering, 1)
    \/ StopGraceful(Recovering)
    \/ StopTerm(Recovering)
    \/ StopKill(Recovering)
    \/ StartCall(Recovering, 1)
    \/ LaunchSucceeds(Recovering)
    \/ StartReady(Recovering)
    \/ ConnectSucceeds(Recovering)
    \/ Return(Recovering)
    \/ \E p \in Ports : NodeReady(p)
    \/ \E p \in Ports : NodeExits(p)

\* The recovering caller goes on calling Stop and Start, its calls run, a
\* booting node becomes ready and a node asked to stop exits.  Nothing is
\* assumed of the failing caller.
SpecRecover ==
    /\ InitRecover
    /\ [][NextRecover]_vars
    /\ SF_vars(StopCall(Recovering, 1))
    /\ SF_vars(StartCall(Recovering, 1))
    /\ WF_vars(RecoverSteps)
    /\ \A p \in Ports : WF_vars(NodeReady(p)) /\ WF_vars(NodeExits(p))

\* Instance i is Running: its node is up and r.client is a live session
Recovered(i) ==
    /\ Running(i)
    /\ client[i] # 0
    /\ handles[client[i]] = "live"

====
